---------------------------- MODULE Spec2Model ----------------------------
(***************************************************************************)
(* Model of the KRA Tax Assistant: the filing-session state machine of    *)
(* src/ui/chainlit_app.py, the field validators, the IT1/VAT3 form        *)
(* schemas, the tax computation and the silent audit pipeline.            *)
(*                                                                         *)
(* Text typed by the user is a sequence of one-character strings, so the  *)
(* validators are computed on characters as the Python code computes      *)
(* them.  Amounts are whole shillings (KES).                              *)
(***************************************************************************)
EXTENDS Integers, Sequences, FiniteSets, TLC

VARIABLES
  session,        \* cl.user_session of every chat session: the keys filing_started,
                  \* filing_type, current_section, current_section_data,
                  \* section_responses, current_question_index, collected_data
                  \* and pending_sections
  last_msgs,      \* per chat session, the messages its last handler run sent
  db_filings,     \* rows of table filings, in insertion order
  audit_cases,    \* rows of table audit_cases, in insertion order
  pc,             \* per chat session, where its on_message handler stands
  audit,          \* the call of trigger_audit_workflow in progress, if any
  filings_begun   \* per chat session, the number of filings it has started

vars == << session, last_msgs, db_filings, audit_cases, pc, audit, filings_begun >>

---------------------------------------------------------------------------
(* Bounds of the model.                                                    *)

\* Filings one chat session may start.
MaxFilings == 1

---------------------------------------------------------------------------
(* A local variable of the code: F applied to the value of v, the value    *)
(* being computed once.                                                    *)

With(v, F(_)) == CHOOSE r \in {F(x) : x \in {v}} : TRUE

---------------------------------------------------------------------------
(* Characters and text.                                                    *)

Digits == {"0", "1", "2", "3", "4", "5", "6", "7", "8", "9"}

DigitValue ==
  [c \in Digits |->
     CASE c = "0" -> 0 [] c = "1" -> 1 [] c = "2" -> 2 [] c = "3" -> 3
       [] c = "4" -> 4 [] c = "5" -> 5 [] c = "6" -> 6 [] c = "7" -> 7
       [] c = "8" -> 8 [] c = "9" -> 9]

DigitChar == <<"0", "1", "2", "3", "4", "5", "6", "7", "8", "9">>

Whitespace == {" ", "\t", "\n", "\r"}

UpperToLower ==
  [ A |-> "a", B |-> "b", C |-> "c", D |-> "d", E |-> "e", F |-> "f",
    G |-> "g", H |-> "h", I |-> "i", J |-> "j", K |-> "k", L |-> "l",
    M |-> "m", N |-> "n", O |-> "o", P |-> "p", Q |-> "q", R |-> "r",
    S |-> "s", T |-> "t", U |-> "u", V |-> "v", W |-> "w", X |-> "x",
    Y |-> "y", Z |-> "z" ]

\* str.lower()
Lower(s) ==
  [i \in 1..Len(s) |->
     IF s[i] \in DOMAIN UpperToLower THEN UpperToLower[s[i]] ELSE s[i]]

RECURSIVE LStrip(_)
LStrip(s) ==
  IF s # << >> /\ Head(s) \in Whitespace THEN LStrip(Tail(s)) ELSE s

RECURSIVE RStrip(_)
RStrip(s) ==
  IF s # << >> /\ s[Len(s)] \in Whitespace
  THEN With(SubSeq(s, 1, Len(s) - 1), LAMBDA front : RStrip(front))
  ELSE s

\* str.strip()
Strip(s) == RStrip(LStrip(s))

\* needle in haystack (Python substring test)
Contains(haystack, needle) ==
  \E i \in 0..(Len(haystack) - Len(needle)) :
      SubSeq(haystack, i + 1, i + Len(needle)) = needle

\* str.startswith(prefix)
StartsWith(s, prefix) ==
  Len(s) >= Len(prefix) /\ SubSeq(s, 1, Len(prefix)) = prefix

AllDigits(s) == \A i \in 1..Len(s) : s[i] \in Digits

\* int() of a sequence of decimal digits
RECURSIVE ParseNat(_)
ParseNat(s) ==
  IF s = << >> THEN 0
  ELSE With(SubSeq(s, 1, Len(s) - 1), LAMBDA front :
         10 * ParseNat(front) + DigitValue[s[Len(s)]])

RECURSIVE NatToChars(_)
NatToChars(n) ==
  IF n < 10 THEN << DigitChar[n + 1] >>
  ELSE NatToChars(n \div 10) \o << DigitChar[(n % 10) + 1] >>

\* A stored answer: text kept verbatim, or the float a validator produced.
StrVal(s) == [t |-> "str", s |-> s, n |-> 0]
NumVal(n) == [t |-> "num", s |-> << >>, n |-> n]

\* str(validated_value): text as it is, a float as "<digits>.0"
PyStr(v) ==
  IF v.t = "str" THEN v.s
  ELSE (IF v.n < 0 THEN << "-" >> ELSE << >>)
       \o NatToChars(IF v.n < 0 THEN -v.n ELSE v.n) \o << ".", "0" >>

\* Python dict helpers: d[k] = v and d.get(k, default)
Put(d, k, v) == [x \in (DOMAIN d) \cup {k} |-> IF x = k THEN v ELSE d[x]]
Get(d, k, default) == IF k \in DOMAIN d THEN d[k] ELSE default
EmptyDict == [k \in {} |-> 0]

\* float(text) for the plain decimal notation: an optional sign, digits and
\* at most one point, with a digit on at least one side.  The fractional
\* digits of the texts the model draws are zeros; the value is whole KES.
IsDecimal(s) ==
  /\ \A i \in 1..Len(s) : s[i] \in Digits \cup {"."}
  /\ Cardinality({i \in 1..Len(s) : s[i] = "."}) <= 1
  /\ \E i \in 1..Len(s) : s[i] \in Digits

IntegerPart(s) ==
  IF \E i \in 1..Len(s) : s[i] = "."
  THEN SubSeq(s, 1, (CHOOSE i \in 1..Len(s) : s[i] = ".") - 1)
  ELSE s

IsFloatText(s) ==
  \/ IsDecimal(s)
  \/ s # << >> /\ Head(s) \in {"+", "-"} /\ IsDecimal(Tail(s))

FloatOf(s) ==
  IF Head(s) = "-" THEN 0 - ParseNat(IntegerPart(Tail(s)))
  ELSE IF Head(s) = "+" THEN ParseNat(IntegerPart(Tail(s)))
  ELSE ParseNat(IntegerPart(s))

\* float(text) also takes the words nan, inf and infinity, in any case and
\* with an optional sign: the result is then not a finite number
NonFiniteWords == {<< "n", "a", "n" >>, << "i", "n", "f" >>, << "i", "n", "f", "i", "n", "i", "t", "y" >>}

IsNonFiniteText(s) ==
  \/ Lower(s) \in NonFiniteWords
  \/ s # << >> /\ Head(s) \in {"+", "-"} /\ Lower(Tail(s)) \in NonFiniteWords
---------------------------------------------------------------------------
(* Guardrails: src/tools/guardrails/validation_tools.py.  A validator      *)
(* result is [valid, has_value, value]: has_value tells whether the       *)
(* returned dict carries the key 'value'.                                 *)

\* re.match(r'^A\d{9}P$', pin); "$" also matches before one final newline
validate_kra_pin(pin) ==
  LET body == IF Len(pin) = 12 /\ pin[12] = "\n" THEN SubSeq(pin, 1, 11) ELSE pin
      is_valid == /\ Len(body) = 11
                  /\ body[1] = "A"
                  /\ AllDigits(SubSeq(body, 2, 10))
                  /\ body[11] = "P"
  IN  [valid |-> is_valid, has_value |-> FALSE, value |-> StrVal(<< >>)]

\* re.sub(r'[^\d.]', '', amount), then float(cleaned)
sanitize_financial_input(amount) ==
  LET cleaned == SelectSeq(amount, LAMBDA c : c \in Digits \cup {"."})
  IN  IF ~IsDecimal(cleaned)
      THEN [valid |-> FALSE, has_value |-> TRUE, value |-> StrVal(<< >>)]
      ELSE IF FloatOf(cleaned) < 0
      THEN [valid |-> FALSE, has_value |-> TRUE, value |-> StrVal(<< >>)]
      ELSE [valid |-> TRUE, has_value |-> TRUE, value |-> NumVal(FloatOf(cleaned))]

\* re.match(r'^\d{4}-\d{2}-\d{2}$', date_string), then the three range tests
validate_date_input(date_string) ==
  LET body == IF Len(date_string) = 11 /\ date_string[11] = "\n"
              THEN SubSeq(date_string, 1, 10) ELSE date_string
      shaped == /\ Len(body) = 10
                /\ AllDigits(SubSeq(body, 1, 4))
                /\ body[5] = "-"
                /\ AllDigits(SubSeq(body, 6, 7))
                /\ body[8] = "-"
                /\ AllDigits(SubSeq(body, 9, 10))
      year == ParseNat(SubSeq(body, 1, 4))
      month == ParseNat(SubSeq(body, 6, 7))
      day == ParseNat(SubSeq(body, 9, 10))
      is_valid == /\ shaped
                  /\ 1900 <= year /\ year <= 2100
                  /\ 1 <= month /\ month <= 12
                  /\ 1 <= day /\ day <= 31
  IN  [valid |-> is_valid, has_value |-> FALSE, value |-> StrVal(<< >>)]

\* The six patterns of detect_prompt_injection, searched ignoring case; the
\* model knows the texts it draws and marks the one that matches.
InjectionText == << "a", "d", "m", "i", "n", " ", "m", "o", "d", "e" >>

detect_prompt_injection(text) ==
  [safe |-> ~Contains(Lower(text), InjectionText)]
---------------------------------------------------------------------------
(* Form schema: src/tools/filing/it1_tools.py and vat3_tools.py.  A        *)
(* question keeps its id and field; "expects" abbreviates its text: the   *)
(* kind of answer the wording asks the taxpayer for.                      *)

S_Yes == << "Y", "e", "s" >>

section_a_part1 ==
  [ section |-> "A_PART1",
    questions |-> <<
      [id |-> "q1", field |-> "kra_pin", expects |-> "pin"],
      [id |-> "q2", field |-> "return_type", expects |-> "text"],
      [id |-> "q3", field |-> "period_from", expects |-> "date"],
      [id |-> "q4", field |-> "period_to", expects |-> "date"],
      [id |-> "q5", field |-> "has_other_income", expects |-> "yesno"],
      [id |-> "q6", field |-> "has_partnership_income", expects |-> "yesno"],
      [id |-> "q7", field |-> "has_car_benefit", expects |-> "yesno"],
      [id |-> "q8", field |-> "has_mortgage", expects |-> "yesno"],
      [id |-> "q9", field |-> "has_insurance", expects |-> "yesno"],
      [id |-> "q10", field |-> "has_foreign_income", expects |-> "yesno"],
      [id |-> "q11", field |-> "has_disability", expects |-> "yesno"],
      [id |-> "q12", field |-> "declare_spouse_income", expects |-> "yesno"] >>,
    conditional_questions |-> << >> ]

section_a_part2 ==
  [ section |-> "A_PART2",
    questions |-> <<
      [id |-> "q1", field |-> "bank_name", expects |-> "text"],
      [id |-> "q2", field |-> "branch_name", expects |-> "text"],
      [id |-> "q3", field |-> "city", expects |-> "text"],
      [id |-> "q4", field |-> "account_holder_name", expects |-> "text"],
      [id |-> "q5", field |-> "account_number", expects |-> "text"] >>,
    conditional_questions |-> << >> ]

section_a_part3 ==
  [ section |-> "A_PART3",
    questions |-> <<
      [id |-> "q1", field |-> "is_audited", expects |-> "yesno"] >>,
    conditional_questions |-> <<
      [ field |-> "is_audited", value |-> S_Yes, questions |-> <<
          [id |-> "q2", field |-> "auditor_pin", expects |-> "text"],
          [id |-> "q3", field |-> "auditor_name", expects |-> "text"],
          [id |-> "q4", field |-> "audit_date", expects |-> "date"] >> ] >> ]

section_a_part6 ==
  [ section |-> "A_PART6",
    questions |-> <<
      [id |-> "q1", field |-> "certificate_number", expects |-> "text"],
      [id |-> "q2", field |-> "valid_from", expects |-> "date"],
      [id |-> "q3", field |-> "valid_to", expects |-> "date"] >>,
    conditional_questions |-> << >> ]

section_f_employment_income ==
  [ section |-> "F",
    questions |-> <<
      [id |-> "q1", field |-> "has_employment_income", expects |-> "yesno"] >>,
    conditional_questions |-> <<
      [ field |-> "has_employment_income", value |-> S_Yes, questions |-> <<
          [id |-> "q2", field |-> "employer_pin", expects |-> "text"],
          [id |-> "q3", field |-> "employer_name", expects |-> "text"],
          [id |-> "q4", field |-> "gross_pay", expects |-> "kes"],
          [id |-> "q5", field |-> "allowances", expects |-> "kes"],
          [id |-> "q6", field |-> "car_benefit_value", expects |-> "kes"],
          [id |-> "q7", field |-> "housing_value", expects |-> "kes"],
          [id |-> "q8", field |-> "pension_excess", expects |-> "kes"] >> ] >> ]

section_f2_other_income ==
  [ section |-> "F2",
    questions |-> <<
      [id |-> "q1", field |-> "has_other_income_types", expects |-> "yesno"] >>,
    conditional_questions |-> <<
      [ field |-> "has_other_income_types", value |-> S_Yes, questions |-> <<
          [id |-> "q2", field |-> "gross_amount", expects |-> "kes"],
          [id |-> "q3", field |-> "tax_deducted", expects |-> "kes"] >> ] >> ]

section_h_estate_trust ==
  [ section |-> "H",
    questions |-> <<
      [id |-> "q1", field |-> "has_estate_income", expects |-> "yesno"] >>,
    conditional_questions |-> <<
      [ field |-> "has_estate_income", value |-> S_Yes, questions |-> <<
          [id |-> "q2", field |-> "estate_income_amount", expects |-> "kes"] >> ] >> ]

section_j_mortgage ==
  [ section |-> "J",
    questions |-> <<
      [id |-> "q1", field |-> "lender_name", expects |-> "text"],
      [id |-> "q2", field |-> "interest_paid", expects |-> "kes"] >>,
    conditional_questions |-> << >> ]

section_k_hosp ==
  [ section |-> "K",
    questions |-> <<
      [id |-> "q1", field |-> "has_hosp", expects |-> "yesno"] >>,
    conditional_questions |-> <<
      [ field |-> "has_hosp", value |-> S_Yes, questions |-> <<
          [id |-> "q2", field |-> "hosp_institution", expects |-> "text"],
          [id |-> "q3", field |-> "hosp_deposit", expects |-> "kes"] >> ] >> ]

section_l_insurance ==
  [ section |-> "L",
    questions |-> <<
      [id |-> "q1", field |-> "insurance_company", expects |-> "text"],
      [id |-> "q2", field |-> "premium_paid", expects |-> "kes"],
      [id |-> "q3", field |-> "insurance_relief", expects |-> "kes"] >>,
    conditional_questions |-> << >> ]

section_m_paye ==
  [ section |-> "M",
    questions |-> <<
      [id |-> "q1", field |-> "employer_pin", expects |-> "text"],
      [id |-> "q2", field |-> "employer_name", expects |-> "text"],
      [id |-> "q3", field |-> "taxable_salary", expects |-> "kes"],
      [id |-> "q4", field |-> "tax_payable", expects |-> "kes"],
      [id |-> "q5", field |-> "paye_deducted", expects |-> "kes"] >>,
    conditional_questions |-> << >> ]

section_n_installment_tax ==
  [ section |-> "N",
    questions |-> <<
      [id |-> "q1", field |-> "paid_installment_tax", expects |-> "yesno"] >>,
    conditional_questions |-> <<
      [ field |-> "paid_installment_tax", value |-> S_Yes, questions |-> <<
          [id |-> "q2", field |-> "payment_reg_number", expects |-> "text"],
          [id |-> "q3", field |-> "payment_date", expects |-> "date"],
          [id |-> "q4", field |-> "amount_paid", expects |-> "kes"] >> ] >> ]

section_o_wht ==
  [ section |-> "O",
    questions |-> <<
      [id |-> "q1", field |-> "has_wht_credits", expects |-> "yesno"] >>,
    conditional_questions |-> <<
      [ field |-> "has_wht_credits", value |-> S_Yes, questions |-> <<
          [id |-> "q2", field |-> "withholder_pin", expects |-> "text"],
          [id |-> "q3", field |-> "withholder_name", expects |-> "text"],
          [id |-> "q4", field |-> "wht_cert_number", expects |-> "text"],
          [id |-> "q5", field |-> "cert_date", expects |-> "date"],
          [id |-> "q6", field |-> "wht_amount", expects |-> "kes"] >> ] >> ]

section_p_advance_tax ==
  [ section |-> "P",
    questions |-> <<
      [id |-> "q1", field |-> "has_commercial_vehicle", expects |-> "yesno"] >>,
    conditional_questions |-> <<
      [ field |-> "has_commercial_vehicle", value |-> S_Yes, questions |-> <<
          [id |-> "q2", field |-> "vehicle_reg_number", expects |-> "text"],
          [id |-> "q3", field |-> "advance_tax_paid", expects |-> "kes"],
          [id |-> "q4", field |-> "payment_date", expects |-> "date"] >> ] >> ]

section_q_income_tax_paid ==
  [ section |-> "Q",
    questions |-> <<
      [id |-> "q1", field |-> "paid_income_tax_advance", expects |-> "yesno"] >>,
    conditional_questions |-> <<
      [ field |-> "paid_income_tax_advance", value |-> S_Yes, questions |-> <<
          [id |-> "q2", field |-> "payment_reg_number", expects |-> "text"],
          [id |-> "q3", field |-> "deposit_date", expects |-> "date"],
          [id |-> "q4", field |-> "amount_paid", expects |-> "kes"] >> ] >> ]

section_r_dtaa ==
  [ section |-> "R",
    questions |-> <<
      [id |-> "q1", field |-> "foreign_country", expects |-> "text"],
      [id |-> "q2", field |-> "dtaa_relief_amount", expects |-> "kes"] >>,
    conditional_questions |-> << >> ]

section_a_info ==
  [ section |-> "VAT_A",
    questions |-> <<
      [id |-> "q1", field |-> "kra_pin", expects |-> "pin"],
      [id |-> "q2", field |-> "return_type", expects |-> "text"],
      [id |-> "q3", field |-> "entity_type", expects |-> "text"],
      [id |-> "q4", field |-> "period_from", expects |-> "date"],
      [id |-> "q5", field |-> "period_to", expects |-> "date"],
      [id |-> "q6", field |-> "non_resident", expects |-> "yesno"] >>,
    conditional_questions |-> << >> ]

section_b_general_sales ==
  [ section |-> "VAT_B",
    questions |-> <<
      [id |-> "q1", field |-> "has_16_sales", expects |-> "yesno"] >>,
    conditional_questions |-> <<
      [ field |-> "has_16_sales", value |-> S_Yes, questions |-> <<
          [id |-> "q2", field |-> "sales_registered", expects |-> "kes"],
          [id |-> "q3", field |-> "sales_non_registered", expects |-> "kes"],
          [id |-> "q4", field |-> "taxable_value", expects |-> "kes"] >> ] >> ]

section_c_other_sales ==
  [ section |-> "VAT_C",
    questions |-> <<
      [id |-> "q1", field |-> "has_8_sales", expects |-> "yesno"] >>,
    conditional_questions |-> <<
      [ field |-> "has_8_sales", value |-> S_Yes, questions |-> <<
          [id |-> "q2", field |-> "sales_registered", expects |-> "kes"],
          [id |-> "q3", field |-> "sales_non_registered", expects |-> "kes"],
          [id |-> "q4", field |-> "taxable_value", expects |-> "kes"] >> ] >> ]

section_d_zero_rated ==
  [ section |-> "VAT_D",
    questions |-> <<
      [id |-> "q1", field |-> "has_zero_rated_sales", expects |-> "yesno"] >>,
    conditional_questions |-> <<
      [ field |-> "has_zero_rated_sales", value |-> S_Yes, questions |-> <<
          [id |-> "q2", field |-> "category", expects |-> "text"],
          [id |-> "q3", field |-> "exemption_cert", expects |-> "text"],
          [id |-> "q4", field |-> "local_value", expects |-> "kes"],
          [id |-> "q5", field |-> "customs_entry", expects |-> "text"],
          [id |-> "q6", field |-> "port_exit", expects |-> "text"],
          [id |-> "q7", field |-> "destination", expects |-> "text"],
          [id |-> "q8", field |-> "export_value", expects |-> "kes"] >> ] >> ]

section_e_exempt ==
  [ section |-> "VAT_E",
    questions |-> <<
      [id |-> "q1", field |-> "has_exempt_sales", expects |-> "yesno"] >>,
    conditional_questions |-> <<
      [ field |-> "has_exempt_sales", value |-> S_Yes, questions |-> <<
          [id |-> "q2", field |-> "exempt_sales_value", expects |-> "kes"] >> ] >> ]

section_f_general_purchases ==
  [ section |-> "VAT_F",
    questions |-> <<
      [id |-> "q1", field |-> "has_16_purchases", expects |-> "yesno"] >>,
    conditional_questions |-> <<
      [ field |-> "has_16_purchases", value |-> S_Yes, questions |-> <<
          [id |-> "q2", field |-> "local_purchases", expects |-> "kes"],
          [id |-> "q3", field |-> "import_purchases", expects |-> "kes"],
          [id |-> "q4", field |-> "taxable_value", expects |-> "kes"] >> ] >> ]

section_g_other_purchases ==
  [ section |-> "VAT_G",
    questions |-> <<
      [id |-> "q1", field |-> "has_8_purchases", expects |-> "yesno"] >>,
    conditional_questions |-> <<
      [ field |-> "has_8_purchases", value |-> S_Yes, questions |-> <<
          [id |-> "q2", field |-> "local_purchases", expects |-> "kes"],
          [id |-> "q3", field |-> "import_purchases", expects |-> "kes"],
          [id |-> "q4", field |-> "taxable_value", expects |-> "kes"] >> ] >> ]

section_h_zero_rated_purchases ==
  [ section |-> "VAT_H",
    questions |-> <<
      [id |-> "q1", field |-> "has_zero_rated_purchases", expects |-> "yesno"] >>,
    conditional_questions |-> <<
      [ field |-> "has_zero_rated_purchases", value |-> S_Yes, questions |-> <<
          [id |-> "q2", field |-> "local_purchases", expects |-> "kes"],
          [id |-> "q3", field |-> "import_purchases", expects |-> "kes"],
          [id |-> "q4", field |-> "taxable_value", expects |-> "kes"] >> ] >> ]

section_i_exempt_purchases ==
  [ section |-> "VAT_I",
    questions |-> <<
      [id |-> "q1", field |-> "has_exempt_purchases", expects |-> "yesno"] >>,
    conditional_questions |-> <<
      [ field |-> "has_exempt_purchases", value |-> S_Yes, questions |-> <<
          [id |-> "q2", field |-> "registered_purchases", expects |-> "kes"],
          [id |-> "q3", field |-> "import_purchases", expects |-> "kes"],
          [id |-> "q4", field |-> "no_vat_purchases", expects |-> "kes"] >> ] >> ]

section_j_imported_services ==
  [ section |-> "VAT_J",
    questions |-> <<
      [id |-> "q1", field |-> "has_imported_services", expects |-> "yesno"] >>,
    conditional_questions |-> <<
      [ field |-> "has_imported_services", value |-> S_Yes, questions |-> <<
          [id |-> "q2", field |-> "supplier_name", expects |-> "text"],
          [id |-> "q3", field |-> "service_description", expects |-> "text"],
          [id |-> "q4", field |-> "transaction_date", expects |-> "date"],
          [id |-> "q5", field |-> "vat_claimable", expects |-> "kes"] >> ] >> ]

section_k_vat_paid ==
  [ section |-> "VAT_K",
    questions |-> <<
      [id |-> "q1", field |-> "paid_vat_advance", expects |-> "yesno"] >>,
    conditional_questions |-> <<
      [ field |-> "paid_vat_advance", value |-> S_Yes, questions |-> <<
          [id |-> "q2", field |-> "advance_payment_reg", expects |-> "text"],
          [id |-> "q3", field |-> "advance_payment_date", expects |-> "date"],
          [id |-> "q4", field |-> "advance_payment_amount", expects |-> "kes"],
          [id |-> "q5", field |-> "self_assessment_reg", expects |-> "text"],
          [id |-> "q6", field |-> "self_assessment_date", expects |-> "date"],
          [id |-> "q7", field |-> "self_assessment_amount", expects |-> "kes"],
          [id |-> "q8", field |-> "credit_adjustment_voucher", expects |-> "text"],
          [id |-> "q9", field |-> "credit_adjustment_date", expects |-> "date"],
          [id |-> "q10", field |-> "credit_adjustment_amount", expects |-> "kes"] >> ] >> ]

section_l_wht ==
  [ section |-> "VAT_L",
    questions |-> <<
      [id |-> "q1", field |-> "has_wht_vat", expects |-> "yesno"] >>,
    conditional_questions |-> <<
      [ field |-> "has_wht_vat", value |-> S_Yes, questions |-> <<
          [id |-> "q2", field |-> "withholder_pin", expects |-> "text"],
          [id |-> "q3", field |-> "withholder_name", expects |-> "text"],
          [id |-> "q4", field |-> "certificate_number", expects |-> "text"],
          [id |-> "q5", field |-> "certificate_date", expects |-> "date"],
          [id |-> "q6", field |-> "vat_withheld", expects |-> "kes"] >> ] >> ]

\* The characters of every field name of the schema.
FieldNameChars ==
  [ account_holder_name |-> << "a", "c", "c", "o", "u", "n", "t", "_", "h", "o", "l", "d", "e", "r", "_", "n", "a", "m", "e" >>,
       account_number |-> << "a", "c", "c", "o", "u", "n", "t", "_", "n", "u", "m", "b", "e", "r" >>,
       advance_payment_amount |-> << "a", "d", "v", "a", "n", "c", "e", "_", "p", "a", "y", "m", "e", "n", "t", "_", "a", "m", "o", "u", "n", "t" >>,
       advance_payment_date |-> << "a", "d", "v", "a", "n", "c", "e", "_", "p", "a", "y", "m", "e", "n", "t", "_", "d", "a", "t", "e" >>,
       advance_payment_reg |-> << "a", "d", "v", "a", "n", "c", "e", "_", "p", "a", "y", "m", "e", "n", "t", "_", "r", "e", "g" >>,
       advance_tax_paid |-> << "a", "d", "v", "a", "n", "c", "e", "_", "t", "a", "x", "_", "p", "a", "i", "d" >>,
       allowances |-> << "a", "l", "l", "o", "w", "a", "n", "c", "e", "s" >>,
       amount_paid |-> << "a", "m", "o", "u", "n", "t", "_", "p", "a", "i", "d" >>,
       audit_date |-> << "a", "u", "d", "i", "t", "_", "d", "a", "t", "e" >>,
       auditor_name |-> << "a", "u", "d", "i", "t", "o", "r", "_", "n", "a", "m", "e" >>,
       auditor_pin |-> << "a", "u", "d", "i", "t", "o", "r", "_", "p", "i", "n" >>,
       bank_name |-> << "b", "a", "n", "k", "_", "n", "a", "m", "e" >>,
       branch_name |-> << "b", "r", "a", "n", "c", "h", "_", "n", "a", "m", "e" >>,
       car_benefit_value |-> << "c", "a", "r", "_", "b", "e", "n", "e", "f", "i", "t", "_", "v", "a", "l", "u", "e" >>,
       category |-> << "c", "a", "t", "e", "g", "o", "r", "y" >>,
       cert_date |-> << "c", "e", "r", "t", "_", "d", "a", "t", "e" >>,
       certificate_date |-> << "c", "e", "r", "t", "i", "f", "i", "c", "a", "t", "e", "_", "d", "a", "t", "e" >>,
       certificate_number |-> << "c", "e", "r", "t", "i", "f", "i", "c", "a", "t", "e", "_", "n", "u", "m", "b", "e", "r" >>,
       city |-> << "c", "i", "t", "y" >>,
       credit_adjustment_amount |-> << "c", "r", "e", "d", "i", "t", "_", "a", "d", "j", "u", "s", "t", "m", "e", "n", "t", "_", "a", "m", "o", "u", "n", "t" >>,
       credit_adjustment_date |-> << "c", "r", "e", "d", "i", "t", "_", "a", "d", "j", "u", "s", "t", "m", "e", "n", "t", "_", "d", "a", "t", "e" >>,
       credit_adjustment_voucher |-> << "c", "r", "e", "d", "i", "t", "_", "a", "d", "j", "u", "s", "t", "m", "e", "n", "t", "_", "v", "o", "u", "c", "h", "e", "r" >>,
       customs_entry |-> << "c", "u", "s", "t", "o", "m", "s", "_", "e", "n", "t", "r", "y" >>,
       declare_spouse_income |-> << "d", "e", "c", "l", "a", "r", "e", "_", "s", "p", "o", "u", "s", "e", "_", "i", "n", "c", "o", "m", "e" >>,
       deposit_date |-> << "d", "e", "p", "o", "s", "i", "t", "_", "d", "a", "t", "e" >>,
       destination |-> << "d", "e", "s", "t", "i", "n", "a", "t", "i", "o", "n" >>,
       dtaa_relief_amount |-> << "d", "t", "a", "a", "_", "r", "e", "l", "i", "e", "f", "_", "a", "m", "o", "u", "n", "t" >>,
       employer_name |-> << "e", "m", "p", "l", "o", "y", "e", "r", "_", "n", "a", "m", "e" >>,
       employer_pin |-> << "e", "m", "p", "l", "o", "y", "e", "r", "_", "p", "i", "n" >>,
       entity_type |-> << "e", "n", "t", "i", "t", "y", "_", "t", "y", "p", "e" >>,
       estate_income_amount |-> << "e", "s", "t", "a", "t", "e", "_", "i", "n", "c", "o", "m", "e", "_", "a", "m", "o", "u", "n", "t" >>,
       exempt_sales_value |-> << "e", "x", "e", "m", "p", "t", "_", "s", "a", "l", "e", "s", "_", "v", "a", "l", "u", "e" >>,
       exemption_cert |-> << "e", "x", "e", "m", "p", "t", "i", "o", "n", "_", "c", "e", "r", "t" >>,
       export_value |-> << "e", "x", "p", "o", "r", "t", "_", "v", "a", "l", "u", "e" >>,
       foreign_country |-> << "f", "o", "r", "e", "i", "g", "n", "_", "c", "o", "u", "n", "t", "r", "y" >>,
       gross_amount |-> << "g", "r", "o", "s", "s", "_", "a", "m", "o", "u", "n", "t" >>,
       gross_pay |-> << "g", "r", "o", "s", "s", "_", "p", "a", "y" >>,
       has_16_purchases |-> << "h", "a", "s", "_", "1", "6", "_", "p", "u", "r", "c", "h", "a", "s", "e", "s" >>,
       has_16_sales |-> << "h", "a", "s", "_", "1", "6", "_", "s", "a", "l", "e", "s" >>,
       has_8_purchases |-> << "h", "a", "s", "_", "8", "_", "p", "u", "r", "c", "h", "a", "s", "e", "s" >>,
       has_8_sales |-> << "h", "a", "s", "_", "8", "_", "s", "a", "l", "e", "s" >>,
       has_car_benefit |-> << "h", "a", "s", "_", "c", "a", "r", "_", "b", "e", "n", "e", "f", "i", "t" >>,
       has_commercial_vehicle |-> << "h", "a", "s", "_", "c", "o", "m", "m", "e", "r", "c", "i", "a", "l", "_", "v", "e", "h", "i", "c", "l", "e" >>,
       has_disability |-> << "h", "a", "s", "_", "d", "i", "s", "a", "b", "i", "l", "i", "t", "y" >>,
       has_employment_income |-> << "h", "a", "s", "_", "e", "m", "p", "l", "o", "y", "m", "e", "n", "t", "_", "i", "n", "c", "o", "m", "e" >>,
       has_estate_income |-> << "h", "a", "s", "_", "e", "s", "t", "a", "t", "e", "_", "i", "n", "c", "o", "m", "e" >>,
       has_exempt_purchases |-> << "h", "a", "s", "_", "e", "x", "e", "m", "p", "t", "_", "p", "u", "r", "c", "h", "a", "s", "e", "s" >>,
       has_exempt_sales |-> << "h", "a", "s", "_", "e", "x", "e", "m", "p", "t", "_", "s", "a", "l", "e", "s" >>,
       has_foreign_income |-> << "h", "a", "s", "_", "f", "o", "r", "e", "i", "g", "n", "_", "i", "n", "c", "o", "m", "e" >>,
       has_hosp |-> << "h", "a", "s", "_", "h", "o", "s", "p" >>,
       has_imported_services |-> << "h", "a", "s", "_", "i", "m", "p", "o", "r", "t", "e", "d", "_", "s", "e", "r", "v", "i", "c", "e", "s" >>,
       has_insurance |-> << "h", "a", "s", "_", "i", "n", "s", "u", "r", "a", "n", "c", "e" >>,
       has_mortgage |-> << "h", "a", "s", "_", "m", "o", "r", "t", "g", "a", "g", "e" >>,
       has_other_income |-> << "h", "a", "s", "_", "o", "t", "h", "e", "r", "_", "i", "n", "c", "o", "m", "e" >>,
       has_other_income_types |-> << "h", "a", "s", "_", "o", "t", "h", "e", "r", "_", "i", "n", "c", "o", "m", "e", "_", "t", "y", "p", "e", "s" >>,
       has_partnership_income |-> << "h", "a", "s", "_", "p", "a", "r", "t", "n", "e", "r", "s", "h", "i", "p", "_", "i", "n", "c", "o", "m", "e" >>,
       has_wht_credits |-> << "h", "a", "s", "_", "w", "h", "t", "_", "c", "r", "e", "d", "i", "t", "s" >>,
       has_wht_vat |-> << "h", "a", "s", "_", "w", "h", "t", "_", "v", "a", "t" >>,
       has_zero_rated_purchases |-> << "h", "a", "s", "_", "z", "e", "r", "o", "_", "r", "a", "t", "e", "d", "_", "p", "u", "r", "c", "h", "a", "s", "e", "s" >>,
       has_zero_rated_sales |-> << "h", "a", "s", "_", "z", "e", "r", "o", "_", "r", "a", "t", "e", "d", "_", "s", "a", "l", "e", "s" >>,
       hosp_deposit |-> << "h", "o", "s", "p", "_", "d", "e", "p", "o", "s", "i", "t" >>,
       hosp_institution |-> << "h", "o", "s", "p", "_", "i", "n", "s", "t", "i", "t", "u", "t", "i", "o", "n" >>,
       housing_value |-> << "h", "o", "u", "s", "i", "n", "g", "_", "v", "a", "l", "u", "e" >>,
       import_purchases |-> << "i", "m", "p", "o", "r", "t", "_", "p", "u", "r", "c", "h", "a", "s", "e", "s" >>,
       insurance_company |-> << "i", "n", "s", "u", "r", "a", "n", "c", "e", "_", "c", "o", "m", "p", "a", "n", "y" >>,
       insurance_relief |-> << "i", "n", "s", "u", "r", "a", "n", "c", "e", "_", "r", "e", "l", "i", "e", "f" >>,
       interest_paid |-> << "i", "n", "t", "e", "r", "e", "s", "t", "_", "p", "a", "i", "d" >>,
       is_audited |-> << "i", "s", "_", "a", "u", "d", "i", "t", "e", "d" >>,
       kra_pin |-> << "k", "r", "a", "_", "p", "i", "n" >>,
       lender_name |-> << "l", "e", "n", "d", "e", "r", "_", "n", "a", "m", "e" >>,
       local_purchases |-> << "l", "o", "c", "a", "l", "_", "p", "u", "r", "c", "h", "a", "s", "e", "s" >>,
       local_value |-> << "l", "o", "c", "a", "l", "_", "v", "a", "l", "u", "e" >>,
       no_vat_purchases |-> << "n", "o", "_", "v", "a", "t", "_", "p", "u", "r", "c", "h", "a", "s", "e", "s" >>,
       non_resident |-> << "n", "o", "n", "_", "r", "e", "s", "i", "d", "e", "n", "t" >>,
       paid_income_tax_advance |-> << "p", "a", "i", "d", "_", "i", "n", "c", "o", "m", "e", "_", "t", "a", "x", "_", "a", "d", "v", "a", "n", "c", "e" >>,
       paid_installment_tax |-> << "p", "a", "i", "d", "_", "i", "n", "s", "t", "a", "l", "l", "m", "e", "n", "t", "_", "t", "a", "x" >>,
       paid_vat_advance |-> << "p", "a", "i", "d", "_", "v", "a", "t", "_", "a", "d", "v", "a", "n", "c", "e" >>,
       paye_deducted |-> << "p", "a", "y", "e", "_", "d", "e", "d", "u", "c", "t", "e", "d" >>,
       payment_date |-> << "p", "a", "y", "m", "e", "n", "t", "_", "d", "a", "t", "e" >>,
       payment_reg_number |-> << "p", "a", "y", "m", "e", "n", "t", "_", "r", "e", "g", "_", "n", "u", "m", "b", "e", "r" >>,
       pension_excess |-> << "p", "e", "n", "s", "i", "o", "n", "_", "e", "x", "c", "e", "s", "s" >>,
       period_from |-> << "p", "e", "r", "i", "o", "d", "_", "f", "r", "o", "m" >>,
       period_to |-> << "p", "e", "r", "i", "o", "d", "_", "t", "o" >>,
       port_exit |-> << "p", "o", "r", "t", "_", "e", "x", "i", "t" >>,
       premium_paid |-> << "p", "r", "e", "m", "i", "u", "m", "_", "p", "a", "i", "d" >>,
       registered_purchases |-> << "r", "e", "g", "i", "s", "t", "e", "r", "e", "d", "_", "p", "u", "r", "c", "h", "a", "s", "e", "s" >>,
       return_type |-> << "r", "e", "t", "u", "r", "n", "_", "t", "y", "p", "e" >>,
       sales_non_registered |-> << "s", "a", "l", "e", "s", "_", "n", "o", "n", "_", "r", "e", "g", "i", "s", "t", "e", "r", "e", "d" >>,
       sales_registered |-> << "s", "a", "l", "e", "s", "_", "r", "e", "g", "i", "s", "t", "e", "r", "e", "d" >>,
       self_assessment_amount |-> << "s", "e", "l", "f", "_", "a", "s", "s", "e", "s", "s", "m", "e", "n", "t", "_", "a", "m", "o", "u", "n", "t" >>,
       self_assessment_date |-> << "s", "e", "l", "f", "_", "a", "s", "s", "e", "s", "s", "m", "e", "n", "t", "_", "d", "a", "t", "e" >>,
       self_assessment_reg |-> << "s", "e", "l", "f", "_", "a", "s", "s", "e", "s", "s", "m", "e", "n", "t", "_", "r", "e", "g" >>,
       service_description |-> << "s", "e", "r", "v", "i", "c", "e", "_", "d", "e", "s", "c", "r", "i", "p", "t", "i", "o", "n" >>,
       supplier_name |-> << "s", "u", "p", "p", "l", "i", "e", "r", "_", "n", "a", "m", "e" >>,
       tax_deducted |-> << "t", "a", "x", "_", "d", "e", "d", "u", "c", "t", "e", "d" >>,
       tax_payable |-> << "t", "a", "x", "_", "p", "a", "y", "a", "b", "l", "e" >>,
       taxable_salary |-> << "t", "a", "x", "a", "b", "l", "e", "_", "s", "a", "l", "a", "r", "y" >>,
       taxable_value |-> << "t", "a", "x", "a", "b", "l", "e", "_", "v", "a", "l", "u", "e" >>,
       transaction_date |-> << "t", "r", "a", "n", "s", "a", "c", "t", "i", "o", "n", "_", "d", "a", "t", "e" >>,
       valid_from |-> << "v", "a", "l", "i", "d", "_", "f", "r", "o", "m" >>,
       valid_to |-> << "v", "a", "l", "i", "d", "_", "t", "o" >>,
       vat_claimable |-> << "v", "a", "t", "_", "c", "l", "a", "i", "m", "a", "b", "l", "e" >>,
       vat_withheld |-> << "v", "a", "t", "_", "w", "i", "t", "h", "h", "e", "l", "d" >>,
       vehicle_reg_number |-> << "v", "e", "h", "i", "c", "l", "e", "_", "r", "e", "g", "_", "n", "u", "m", "b", "e", "r" >>,
       wht_amount |-> << "w", "h", "t", "_", "a", "m", "o", "u", "n", "t" >>,
       wht_cert_number |-> << "w", "h", "t", "_", "c", "e", "r", "t", "_", "n", "u", "m", "b", "e", "r" >>,
       withholder_name |-> << "w", "i", "t", "h", "h", "o", "l", "d", "e", "r", "_", "n", "a", "m", "e" >>,
       withholder_pin |-> << "w", "i", "t", "h", "h", "o", "l", "d", "e", "r", "_", "p", "i", "n" >> ]

---------------------------------------------------------------------------
(* FilingWorkflowAgentADK: src/agents/filing_workflow_agent.py.            *)

NoQuestion == [id |-> "none", field |-> "none", expects |-> "none"]

\* FirstUnanswered with a fault seeded: the last open question comes first
FirstUnanswered_Last(questions, collected_responses) ==
  LET open == {i \in 1..Len(questions) :
                 questions[i].field \notin DOMAIN collected_responses}
  IN  IF open = {} THEN NoQuestion
      ELSE questions[CHOOSE i \in open : \A j \in open : i >= j]

\* the first question of the list whose field has no recorded answer
FirstUnanswered(questions, collected_responses) ==
  LET open == {i \in 1..Len(questions) :
                 questions[i].field \notin DOMAIN collected_responses}
  IN  IF open = {} THEN NoQuestion
      ELSE questions[CHOOSE i \in open : \A j \in open : i <= j]

\* "if q: return q", else what follows
OrElse(question, otherwise) ==
  IF question # NoQuestion THEN question ELSE otherwise

\* ScanConditional with a fault seeded: the sub-questions are unlocked by any
\* answer to the trigger field
RECURSIVE ScanConditional_AnyValue(_, _)
ScanConditional_AnyValue(entries, collected_responses) ==
  IF entries = << >> THEN NoQuestion
  ELSE OrElse(IF Head(entries).field \in DOMAIN collected_responses
              THEN FirstUnanswered(Head(entries).questions, collected_responses)
              ELSE NoQuestion,
              ScanConditional_AnyValue(Tail(entries), collected_responses))

RECURSIVE ScanConditional(_, _)
ScanConditional(entries, collected_responses) ==
  IF entries = << >> THEN NoQuestion
  ELSE OrElse(IF /\ Head(entries).field \in DOMAIN collected_responses
                 /\ collected_responses[Head(entries).field]
                      = StrVal(Head(entries).value)
              THEN FirstUnanswered(Head(entries).questions, collected_responses)
              ELSE NoQuestion,
              ScanConditional(Tail(entries), collected_responses))

get_next_question(section_name, section_data, collected_responses) ==
  OrElse(FirstUnanswered(section_data.questions, collected_responses),
         ScanConditional(section_data.conditional_questions,
                         collected_responses))

Chars_pin == << "p", "i", "n" >>
FlagPrefixes ==
  { << "h", "a", "s", "_" >>, << "i", "s", "_" >>, << "p", "a", "i", "d", "_" >>,
    << "d", "e", "c", "l", "a", "r", "e", "_" >>,
    << "d", "o", "_", "y", "o", "u", "_" >>,
    << "d", "i", "d", "_", "y", "o", "u", "_" >> }
AmountKeywords ==
  { << "a", "m", "o", "u", "n", "t" >>, << "p", "a", "y" >>,
    << "i", "n", "c", "o", "m", "e" >>, << "v", "a", "l", "u", "e" >>,
    << "p", "a", "i", "d" >>, << "r", "e", "l", "i", "e", "f" >>,
    << "d", "e", "p", "o", "s", "i", "t" >> }
DateKeywords ==
  { << "d", "a", "t", "e" >>, << "f", "r", "o", "m" >>, << "t", "o" >> }

Accepted(response) ==
  [valid |-> TRUE, has_value |-> TRUE, value |-> StrVal(response)]

validate_response(field_name, response) ==
  With(Lower(FieldNameChars[field_name]), LAMBDA name :
    IF Contains(name, Chars_pin) /\ field_name # "kra_pin"
      THEN Accepted(response)
    ELSE IF field_name = "kra_pin"
      THEN validate_kra_pin(response)
    ELSE IF \E p \in FlagPrefixes : StartsWith(name, p)
      THEN Accepted(response)
    ELSE IF \E k \in AmountKeywords : Contains(name, k)
      THEN sanitize_financial_input(response)
    ELSE IF \E k \in DateKeywords : Contains(name, k)
      THEN validate_date_input(response)
    ELSE Accepted(response))

\* process_section_* / process_vat3_section_*: the schema of a section
SectionData(section) ==
  CASE section = "A_PART1" -> section_a_part1
    [] section = "A_PART2" -> section_a_part2
    [] section = "A_PART3" -> section_a_part3
    [] section = "A_PART6" -> section_a_part6
    [] section = "F" -> section_f_employment_income
    [] section = "F2" -> section_f2_other_income
    [] section = "H" -> section_h_estate_trust
    [] section = "J" -> section_j_mortgage
    [] section = "K" -> section_k_hosp
    [] section = "L" -> section_l_insurance
    [] section = "M" -> section_m_paye
    [] section = "N" -> section_n_installment_tax
    [] section = "O" -> section_o_wht
    [] section = "P" -> section_p_advance_tax
    [] section = "Q" -> section_q_income_tax_paid
    [] section = "R" -> section_r_dtaa
    [] section = "VAT_A" -> section_a_info
    [] section = "VAT_B" -> section_b_general_sales
    [] section = "VAT_C" -> section_c_other_sales
    [] section = "VAT_D" -> section_d_zero_rated
    [] section = "VAT_E" -> section_e_exempt
    [] section = "VAT_F" -> section_f_general_purchases
    [] section = "VAT_G" -> section_g_other_purchases
    [] section = "VAT_H" -> section_h_zero_rated_purchases
    [] section = "VAT_I" -> section_i_exempt_purchases
    [] section = "VAT_J" -> section_j_imported_services
    [] section = "VAT_K" -> section_k_vat_paid
    [] section = "VAT_L" -> section_l_wht

---------------------------------------------------------------------------
(* Computation engine: section_t_tax_computation (it1_tools.py) and        *)
(* section_o_calculation (vat3_tools.py).  Arithmetic is exact; the rates *)
(* 0.10, 0.25, 0.30, 0.16 and 0.08 are applied as hundredths.             *)

S_no == << "n", "o" >>
S_yes == << "y", "e", "s" >>

\* safe_float: the float and whether it is finite; a nan or an infinity has
\* no amount in the model, and n is 0 for it
safe_float(value) ==
  IF value.t = "num" THEN [finite |-> TRUE, n |-> value.n]
  ELSE With(Strip(value.s), LAMBDA text :
         IF Lower(text) \in {S_no, S_yes, << >>, << "n" >>, << "y" >>}
           THEN [finite |-> TRUE, n |-> 0]
         ELSE IF IsFloatText(text) THEN [finite |-> TRUE, n |-> FloatOf(text)]
         ELSE IF IsNonFiniteText(text) THEN [finite |-> FALSE, n |-> 0]
         ELSE [finite |-> TRUE, n |-> 0])

\* collected_data.get(section, {}).get(field, 0)
Answer(collected, section, field) ==
  Get(Get(collected, section, EmptyDict), field, NumVal(0))

\* safe_float(collected_data.get(section, {}).get(field, 0))
Amount(collected, section, field) ==
  With(Answer(collected, section, field), LAMBDA value : safe_float(value).n)

\* the fields section_t_tax_computation reads
IT1Fields ==
  { << "F", "gross_pay" >>, << "F", "allowances" >>,
    << "F", "car_benefit_value" >>, << "F", "housing_value" >>,
    << "F2", "gross_amount" >>, << "H", "estate_income_amount" >>,
    << "F", "pension_excess" >>, << "J", "interest_paid" >>,
    << "K", "hosp_deposit" >>, << "L", "insurance_relief" >>,
    << "M", "paye_deducted" >>, << "N", "amount_paid" >>,
    << "O", "wht_amount" >>, << "P", "advance_tax_paid" >>,
    << "Q", "amount_paid" >>, << "R", "dtaa_relief_amount" >> }

\* the fields the three VAT sections read
VATFields ==
  { << "VAT_B", "taxable_value" >>, << "VAT_C", "taxable_value" >>,
    << "VAT_D", "local_value" >>, << "VAT_D", "export_value" >>,
    << "VAT_E", "exempt_sales_value" >>, << "VAT_F", "taxable_value" >>,
    << "VAT_G", "taxable_value" >>, << "VAT_J", "vat_claimable" >>,
    << "VAT_K", "advance_payment_amount" >>,
    << "VAT_K", "self_assessment_amount" >>,
    << "VAT_K", "credit_adjustment_amount" >>, << "VAT_L", "vat_withheld" >> }

\* every amount a computation reads is a finite number: a nan or an infinity
\* read from one field makes the figures computed from it nan or infinite
Finite(collected, fields) ==
  \A f \in fields : safe_float(Answer(collected, f[1], f[2])).finite

Min(a, b) == IF a <= b THEN a ELSE b
Max(a, b) == IF a >= b THEN a ELSE b

\* section_t_tax_computation with a fault seeded: the taxable income is
\* floored at zero
section_t_tax_computation_floored(collected) ==
  With(  Amount(collected, "F", "gross_pay")
       + Amount(collected, "F", "allowances")
       + Amount(collected, "F", "car_benefit_value")
       + Amount(collected, "F", "housing_value")
       + Amount(collected, "F2", "gross_amount")
       + Amount(collected, "H", "estate_income_amount"), LAMBDA total_income :
  With(Amount(collected, "F", "pension_excess"), LAMBDA pension_deduction :
  With(Amount(collected, "J", "interest_paid"), LAMBDA mortgage_interest :
  With(Amount(collected, "K", "hosp_deposit"), LAMBDA hosp :
  With(Max(mortgage_interest, Min(hosp, 96000)), LAMBDA relief_deduction :
  With(Max(total_income - pension_deduction - relief_deduction, 0),
       LAMBDA taxable_income :
  With(IF taxable_income <= 288000
         THEN (taxable_income * 10) \div 100
       ELSE IF taxable_income <= 388000
         THEN (288000 * 10) \div 100 + ((taxable_income - 288000) * 25) \div 100
       ELSE (288000 * 10) \div 100 + (100000 * 25) \div 100
              + ((taxable_income - 388000) * 30) \div 100, LAMBDA tax_payable :
  With(Amount(collected, "L", "insurance_relief"), LAMBDA insurance :
  With(Max(tax_payable - 28800 - Min(insurance, 60000), 0), LAMBDA tax_after_reliefs :
  With(  Amount(collected, "M", "paye_deducted")
       + Amount(collected, "N", "amount_paid")
       + Amount(collected, "O", "wht_amount")
       + Amount(collected, "P", "advance_tax_paid")
       + Amount(collected, "Q", "amount_paid")
       + Amount(collected, "R", "dtaa_relief_amount"), LAMBDA total_credits :
  With(tax_after_reliefs - total_credits, LAMBDA final_amount :
    [ total_income |-> total_income,
      taxable_income |-> taxable_income,
      tax_payable |-> tax_payable,
      tax_after_reliefs |-> tax_after_reliefs,
      total_credits |-> total_credits,
      final_tax_due_or_refund |-> final_amount,
      finite |-> Finite(collected, IT1Fields),
      status |-> IF final_amount > 0 THEN "TAX_DUE" ELSE "REFUND_DUE" ])))))))))))

\* section_t_tax_computation with a fault seeded: the tax after reliefs is
\* not floored at zero
section_t_tax_computation_unfloored(collected) ==
  With(  Amount(collected, "F", "gross_pay")
       + Amount(collected, "F", "allowances")
       + Amount(collected, "F", "car_benefit_value")
       + Amount(collected, "F", "housing_value")
       + Amount(collected, "F2", "gross_amount")
       + Amount(collected, "H", "estate_income_amount"), LAMBDA total_income :
  With(Amount(collected, "F", "pension_excess"), LAMBDA pension_deduction :
  With(Amount(collected, "J", "interest_paid"), LAMBDA mortgage_interest :
  With(Amount(collected, "K", "hosp_deposit"), LAMBDA hosp :
  With(Max(mortgage_interest, Min(hosp, 96000)), LAMBDA relief_deduction :
  With(total_income - pension_deduction - relief_deduction, LAMBDA taxable_income :
  With(IF taxable_income <= 288000
         THEN (taxable_income * 10) \div 100
       ELSE IF taxable_income <= 388000
         THEN (288000 * 10) \div 100 + ((taxable_income - 288000) * 25) \div 100
       ELSE (288000 * 10) \div 100 + (100000 * 25) \div 100
              + ((taxable_income - 388000) * 30) \div 100, LAMBDA tax_payable :
  With(Amount(collected, "L", "insurance_relief"), LAMBDA insurance :
  With(tax_payable - 28800 - Min(insurance, 60000), LAMBDA tax_after_reliefs :
  With(  Amount(collected, "M", "paye_deducted")
       + Amount(collected, "N", "amount_paid")
       + Amount(collected, "O", "wht_amount")
       + Amount(collected, "P", "advance_tax_paid")
       + Amount(collected, "Q", "amount_paid")
       + Amount(collected, "R", "dtaa_relief_amount"), LAMBDA total_credits :
  With(tax_after_reliefs - total_credits, LAMBDA final_amount :
    [ total_income |-> total_income,
      taxable_income |-> taxable_income,
      tax_payable |-> tax_payable,
      tax_after_reliefs |-> tax_after_reliefs,
      total_credits |-> total_credits,
      final_tax_due_or_refund |-> final_amount,
      finite |-> Finite(collected, IT1Fields),
      status |-> IF final_amount > 0 THEN "TAX_DUE" ELSE "REFUND_DUE" ])))))))))))

section_t_tax_computation(collected) ==
  With(  Amount(collected, "F", "gross_pay")
       + Amount(collected, "F", "allowances")
       + Amount(collected, "F", "car_benefit_value")
       + Amount(collected, "F", "housing_value")
       + Amount(collected, "F2", "gross_amount")
       + Amount(collected, "H", "estate_income_amount"), LAMBDA total_income :
  With(Amount(collected, "F", "pension_excess"), LAMBDA pension_deduction :
  With(Amount(collected, "J", "interest_paid"), LAMBDA mortgage_interest :
  With(Amount(collected, "K", "hosp_deposit"), LAMBDA hosp :
  With(Max(mortgage_interest, Min(hosp, 96000)), LAMBDA relief_deduction :
  With(total_income - pension_deduction - relief_deduction, LAMBDA taxable_income :
  With(IF taxable_income <= 288000
         THEN (taxable_income * 10) \div 100
       ELSE IF taxable_income <= 388000
         THEN (288000 * 10) \div 100 + ((taxable_income - 288000) * 25) \div 100
       ELSE (288000 * 10) \div 100 + (100000 * 25) \div 100
              + ((taxable_income - 388000) * 30) \div 100, LAMBDA tax_payable :
  With(Amount(collected, "L", "insurance_relief"), LAMBDA insurance :
  With(Max(tax_payable - 28800 - Min(insurance, 60000), 0), LAMBDA tax_after_reliefs :
  With(  Amount(collected, "M", "paye_deducted")
       + Amount(collected, "N", "amount_paid")
       + Amount(collected, "O", "wht_amount")
       + Amount(collected, "P", "advance_tax_paid")
       + Amount(collected, "Q", "amount_paid")
       + Amount(collected, "R", "dtaa_relief_amount"), LAMBDA total_credits :
  With(tax_after_reliefs - total_credits, LAMBDA final_amount :
    [ total_income |-> total_income,
      taxable_income |-> taxable_income,
      tax_payable |-> tax_payable,
      tax_after_reliefs |-> tax_after_reliefs,
      total_credits |-> total_credits,
      final_tax_due_or_refund |-> final_amount,
      finite |-> Finite(collected, IT1Fields),
      status |-> IF final_amount > 0 THEN "TAX_DUE" ELSE "REFUND_DUE" ])))))))))))

\* the greatest common divisor, for the exempt ratio below
RECURSIVE Gcd(_, _)
Gcd(a, b) == IF b = 0 THEN a ELSE Gcd(b, a % b)

\* Apportion with a fault seeded: the share of the sales that are not exempt
Apportion_NotExempt(input_vat, exempt_sales, total_sales) ==
  With(Gcd(total_sales - exempt_sales, total_sales), LAMBDA g :
    (input_vat * ((total_sales - exempt_sales) \div g)) \div (total_sales \div g))

\* input_vat * (exempt_sales / total_sales), the ratio in lowest terms
Apportion(input_vat, exempt_sales, total_sales) ==
  With(Gcd(exempt_sales, total_sales), LAMBDA g :
    (input_vat * (exempt_sales \div g)) \div (total_sales \div g))

VATResult(output_vat, input_vat, imported_services_vat, non_deductible_input_vat, wht_credits, vat_paid, floor, finite) ==
  With(input_vat - non_deductible_input_vat + imported_services_vat,
       LAMBDA deductible_input_vat :
  With(output_vat - deductible_input_vat + 0 - wht_credits - vat_paid,
       LAMBDA net_vat :
    [ output_vat |-> output_vat,
      input_vat |-> input_vat,
      imported_services_vat |-> imported_services_vat,
      non_deductible_input_vat |-> non_deductible_input_vat,
      deductible_input_vat |-> deductible_input_vat,
      vat_payable_credit |-> output_vat - deductible_input_vat,
      credit_brought_forward |-> 0,
      wht_credits |-> wht_credits,
      vat_paid |-> vat_paid,
      net_vat_payable_credit |-> net_vat,
      finite |-> finite,
      status |-> IF net_vat > floor THEN "VAT_PAYABLE"
                 ELSE "CREDIT_CARRIED_FORWARD" ]))

\* section_o_calculation with a fault seeded: a net VAT of zero is payable
section_o_calculation_zero_payable(collected) ==
  With(  Amount(collected, "VAT_B", "taxable_value")
       + Amount(collected, "VAT_C", "taxable_value")
       + Amount(collected, "VAT_D", "local_value")
       + Amount(collected, "VAT_D", "export_value")
       + Amount(collected, "VAT_E", "exempt_sales_value"), LAMBDA total_sales :
  With(  (Amount(collected, "VAT_B", "taxable_value") * 16) \div 100
       + (Amount(collected, "VAT_C", "taxable_value") * 8) \div 100,
       LAMBDA output_vat :
  With(  (Amount(collected, "VAT_F", "taxable_value") * 16) \div 100
       + (Amount(collected, "VAT_G", "taxable_value") * 8) \div 100,
       LAMBDA input_vat :
    VATResult(output_vat, input_vat,
              Amount(collected, "VAT_J", "vat_claimable"),
              IF total_sales > 0
                THEN Apportion(input_vat,
                               Amount(collected, "VAT_E", "exempt_sales_value"),
                               total_sales)
                ELSE 0,
              Amount(collected, "VAT_L", "vat_withheld"),
                Amount(collected, "VAT_K", "advance_payment_amount")
              + Amount(collected, "VAT_K", "self_assessment_amount")
              + Amount(collected, "VAT_K", "credit_adjustment_amount"),
              -1, Finite(collected, VATFields)))))

\* section_m_sales_summary, section_n_purchase_summary and
\* section_o_calculation
section_o_calculation(collected) ==
  With(  Amount(collected, "VAT_B", "taxable_value")
       + Amount(collected, "VAT_C", "taxable_value")
       + Amount(collected, "VAT_D", "local_value")
       + Amount(collected, "VAT_D", "export_value")
       + Amount(collected, "VAT_E", "exempt_sales_value"), LAMBDA total_sales :
  With(  (Amount(collected, "VAT_B", "taxable_value") * 16) \div 100
       + (Amount(collected, "VAT_C", "taxable_value") * 8) \div 100,
       LAMBDA output_vat :
  With(  (Amount(collected, "VAT_F", "taxable_value") * 16) \div 100
       + (Amount(collected, "VAT_G", "taxable_value") * 8) \div 100,
       LAMBDA input_vat :
    VATResult(output_vat, input_vat,
              Amount(collected, "VAT_J", "vat_claimable"),
              IF total_sales > 0
                THEN Apportion(input_vat,
                               Amount(collected, "VAT_E", "exempt_sales_value"),
                               total_sales)
                ELSE 0,
              Amount(collected, "VAT_L", "vat_withheld"),
                Amount(collected, "VAT_K", "advance_payment_amount")
              + Amount(collected, "VAT_K", "self_assessment_amount")
              + Amount(collected, "VAT_K", "credit_adjustment_amount"),
              0, Finite(collected, VATFields)))))

---------------------------------------------------------------------------
(* RouterAgentADK.detect_intent and fallback_intent_detection:             *)
(* src/agents/router_agent.py.                                             *)

HelpKeywords ==
  { << "q", "u", "e", "s", "t", "i", "o", "n" >>, << "a", "s", "k" >>, << "h", "e", "l", "p" >>, << "i", "n", "f", "o" >>, << "i", "n", "f", "o", "r", "m", "a", "t", "i", "o", "n" >> }
FilePhrases ==
  { << "f", "i", "l", "e", " ", "m", "y" >>, << "f", "i", "l", "e", " ", "i", "t", "1" >>, << "f", "i", "l", "e", " ", "v", "a", "t", "3" >>, << "s", "t", "a", "r", "t", " ", "f", "i", "l", "i", "n", "g" >>,
    << "s", "u", "b", "m", "i", "t", " ", "r", "e", "t", "u", "r", "n" >>, << "s", "t", "a", "r", "t", " ", "r", "e", "t", "u", "r", "n" >> }
FileKeywords == { << "f", "i", "l", "e" >>, << "f", "i", "l", "i", "n", "g" >>, << "r", "e", "t", "u", "r", "n" >>, << "s", "u", "b", "m", "i", "t" >>, << "s", "t", "a", "r", "t" >> }
IT1Keywords == { << "i", "t", "1" >>, << "i", "n", "c", "o", "m", "e", " ", "t", "a", "x" >>, << "i", "n", "d", "i", "v", "i", "d", "u", "a", "l", " ", "t", "a", "x" >>, << "p", "e", "r", "s", "o", "n", "a", "l", " ", "t", "a", "x" >> }
VAT3Keywords == { << "v", "a", "t", "3" >>, << "v", "a", "t" >>, << "v", "a", "l", "u", "e", " ", "a", "d", "d", "e", "d", " ", "t", "a", "x" >> }
NotFilingPhrases ==
  { << "n", "o", "t", " ", "f", "i", "l", "i", "n", "g" >>, << "d", "o", "n", "'", "t", " ", "w", "a", "n", "t", " ", "t", "o", " ", "f", "i", "l", "e" >>, << "d", "o", " ", "n", "o", "t", " ", "w", "a", "n", "t", " ", "t", "o", " ", "f", "i", "l", "e" >> }

ContainsAny(text, keywords) == \E k \in keywords : Contains(text, k)

fallback_intent_detection(user_message) ==
  With(Lower(user_message), LAMBDA message_lower :
    IF /\ ContainsAny(message_lower, HelpKeywords)
       /\ ~ContainsAny(message_lower, FileKeywords)
      THEN [intent |-> "QUERY", next_workflow |-> "help"]
    ELSE IF ContainsAny(message_lower, IT1Keywords)
      THEN [intent |-> "IT1_FILING", next_workflow |-> "filing_workflow"]
    ELSE IF ContainsAny(message_lower, VAT3Keywords)
      THEN [intent |-> "VAT3_FILING", next_workflow |-> "filing_workflow"]
    ELSE [intent |-> "QUERY", next_workflow |-> "help"])

\* intent_data['intent'].replace('_FILING', '')
StripFiling(intent) ==
  CASE intent = "IT1_FILING" -> "IT1"
    [] intent = "VAT3_FILING" -> "VAT3"
    [] OTHER -> intent

detect_intent(user_message) ==
  With(Lower(user_message), LAMBDA message_lower :
    IF ContainsAny(message_lower, NotFilingPhrases)
      THEN [filing_type |-> "", workflow |-> "help"]
    ELSE IF /\ ContainsAny(message_lower, HelpKeywords)
            /\ ~ContainsAny(message_lower, FilePhrases)
      THEN [filing_type |-> "", workflow |-> "help"]
    ELSE With(fallback_intent_detection(user_message), LAMBDA intent_data :
           [filing_type |-> StripFiling(intent_data.intent),
            workflow |-> intent_data.next_workflow]))

route_to_workflow(intent) ==
  IF intent.workflow = "help" THEN "help_response" ELSE intent.workflow

---------------------------------------------------------------------------
(* The chat handler: src/ui/chainlit_app.py.                               *)

\* start(): the session keys set when a chat opens.  current_section_data
\* and section_responses are not set; they read as None and as {}.
start ==
  [ filing_started |-> FALSE,
    filing_type |-> "None",
    current_section |-> "None",
    current_section_data |-> "None",
    section_responses |-> EmptyDict,
    current_question_index |-> 0,
    collected_data |-> EmptyDict,
    pending_sections |-> << >> ]

\* A message sent to the user.
Msg(kind, section, field, number, figures) ==
  [kind |-> kind, section |-> section, field |-> field, number |-> number,
   figures |-> figures]
Note(kind) == Msg(kind, "", "", 0, << >>)
Completed(label) == Msg("completed", label, "", 0, << >>)
SectionMessage(section) == Msg("section_message", section, "", 0, << >>)
Ask(section, question, number) ==
  Msg("question", section, question.field, number, << >>)

NoneVal == [t |-> "none", s |-> << >>, n |-> 0]
NoCall == [requested |-> FALSE, kra_pin |-> NoneVal, declared_income |-> 0]

\* What one run of main does: the session it leaves, the messages it sends,
\* the rows it inserts into filings, the audit it hands off before its last
\* two statements, and whether it ends in an uncaught exception.
Out(sess, msgs, rows, call, raised) ==
  [sess |-> sess, msgs |-> msgs, rows |-> rows, call |-> call, raised |-> raised]

\* Chainlit reports an exception that escapes the handler to the user.
Raise(sess, msgs, rows) ==
  Out(sess, msgs \o << Note("error") >>, rows, NoCall, TRUE)

\* SaysYes with a fault seeded: every flag reads as yes
SaysYes_Always(answers, field) == TRUE

\* SaysYes with a fault seeded: no flag reads as yes
SaysYes_Never(answers, field) == FALSE

\* dict.get(field, "").strip().lower() == "yes"
SaysYes(answers, field) ==
  LET v == Get(answers, field, StrVal(<< >>))
  IN  Lower(Strip(v.s)) = S_yes

FirstQuestion(section) == SectionData(section).questions[1]

\* Enter with a fault seeded: section_responses is not cleared
Enter_KeepingResponses(sess, section) ==
  [sess EXCEPT !.current_section = section,
               !.current_question_index = 0,
               !.current_section_data = section]

\* the four session writes of a section change
Enter(sess, section) ==
  [sess EXCEPT !.current_section = section,
               !.current_question_index = 0,
               !.current_section_data = section,
               !.section_responses = EmptyDict]

\* a correctly written transition branch
MoveTo(sess, rows, section, label) ==
  Out(Enter(sess, section),
      << Completed(label), SectionMessage(section),
         Ask(section, FirstQuestion(section), 0) >>,
      rows, NoCall, FALSE)

\* BuildPending with a fault seeded: insurance is queued before mortgage
BuildPending_InsuranceFirst(collected) ==
  LET a_part1_data == Get(collected, "A_PART1", EmptyDict)
      want(flag, section) ==
        IF SaysYes(a_part1_data, flag) /\ section \notin DOMAIN collected
        THEN << section >> ELSE << >>
  IN  want("has_insurance", "L") \o want("has_mortgage", "J")
        \o want("has_foreign_income", "R")

\* pending_sections as the branch of section Q builds it
BuildPending(collected) ==
  LET a_part1_data == Get(collected, "A_PART1", EmptyDict)
      want(flag, section) ==
        IF SaysYes(a_part1_data, flag) /\ section \notin DOMAIN collected
        THEN << section >> ELSE << >>
  IN  want("has_mortgage", "J") \o want("has_insurance", "L")
        \o want("has_foreign_income", "R")

SectionLabel(section) ==
  CASE section = "J" -> "J (Mortgage)"
    [] section = "L" -> "L (Insurance)"
    [] section = "R" -> "R (Foreign Income)"
    [] OTHER -> section

Abs(n) == IF n < 0 THEN 0 - n ELSE n

\* the figures of the summary: the branch of section Q and the branch of
\* sections J, L, R print different lines
SummaryFigures(layout, result) ==
  IF layout = "after_Q"
  THEN << result.tax_payable,
          result.tax_payable - result.tax_after_reliefs,
          result.tax_after_reliefs, result.total_credits,
          Abs(result.final_tax_due_or_refund) >>
  ELSE << result.total_income, result.taxable_income,
          result.tax_payable, result.tax_after_reliefs,
          result.total_credits, Abs(result.final_tax_due_or_refund) >>

\* Summarise with a fault seeded: the taxable income is declared to the audit
Summarise_TaxableIncome(sess, rows, layout, result) ==
  Out(sess,
      << Completed("All sections"),
         Msg("summary", layout, result.status, 0,
             SummaryFigures(layout, result)) >>,
      rows,
      [ requested |-> TRUE,
        kra_pin |-> Get(Get(sess.collected_data, "A_PART1", EmptyDict),
                        "kra_pin", NoneVal),
        declared_income |-> result.taxable_income ],
      FALSE)

\* the summary and the hand-off to the audit; the reset that follows the
\* hand-off is FinishFiling
Summarise(sess, rows, layout, result) ==
  Out(sess,
      << Completed("All sections"),
         Msg("summary", layout, result.status, 0,
             SummaryFigures(layout, result)) >>,
      rows,
      [ requested |-> TRUE,
        kra_pin |-> Get(Get(sess.collected_data, "A_PART1", EmptyDict),
                        "kra_pin", NoneVal),
        declared_income |-> result.total_income ],
      FALSE)

\* compute_final_tax, then the summary and the audit
ComputeAndAudit(sess, rows, layout) ==
  With(section_t_tax_computation(sess.collected_data), LAMBDA result :
    Summarise(sess, rows, layout, result))

\* cl.user_session.set("filing_started", False); set("collected_data", {})
FinishFiling(sess) ==
  [sess EXCEPT !.filing_started = FALSE, !.collected_data = EmptyDict]

\* What a branch of the transition chain does: enter a section ("move"),
\* end in the NameError of cl_user_session ("raise"), compute the tax
\* ("compute"; section carries the summary layout), or nothing ("none").
Move(sess, section, label) ==
  [kind |-> "move", sess |-> sess, section |-> section, label |-> label,
   msgs |-> << >>]
Fail(sess, msgs) ==
  [kind |-> "raise", sess |-> sess, section |-> "", label |-> "", msgs |-> msgs]
Compute(sess, layout) ==
  [kind |-> "compute", sess |-> sess, section |-> layout, label |-> "",
   msgs |-> << >>]
Nothing(sess) ==
  [kind |-> "none", sess |-> sess, section |-> "", label |-> "", msgs |-> << >>]

\* lines 410-483: after section Q, the first pending section or the summary
AfterQ(sess, pending) ==
  IF pending # << >>
  THEN Move([sess EXCEPT !.pending_sections = Tail(pending)], Head(pending), "Q")
  ELSE Compute(sess, "after_Q")

\* AfterPending with a fault seeded: the last queued section is not asked
AfterPending_SkipsLast(sess) ==
  IF Len(sess.pending_sections) > 1
  THEN Move([sess EXCEPT !.pending_sections = Tail(@)],
            Head(sess.pending_sections),
            SectionLabel(Head(sess.pending_sections)))
  ELSE Compute(sess, "after_JLR")

\* lines 687-744: after J, L or R, the next pending section or the summary
AfterPending(sess) ==
  IF sess.pending_sections # << >>
  THEN Move([sess EXCEPT !.pending_sections = Tail(@)],
            Head(sess.pending_sections),
            SectionLabel(Head(sess.pending_sections)))
  ELSE Compute(sess, "after_JLR")

\* The if/elif chain that runs when the active section has no question left
\* (lines 179-769).  sess holds the answer just recorded.
Transition(sess) ==
  LET cs == sess.current_section
      it1 == sess.filing_type = "IT1"
      vat3 == sess.filing_type = "VAT3"
  IN  IF cs = "A_PART1" /\ it1 THEN Move(sess, "A_PART2", "A Part 1")
      ELSE IF cs = "A_PART2" /\ it1 THEN Move(sess, "A_PART3", "A Part 2")
      ELSE IF cs = "A_PART3" /\ it1 THEN
        IF SaysYes(Get(sess.collected_data, "A_PART1", EmptyDict),
                   "has_disability")
        THEN Move(sess, "A_PART6", "A Part 3")
        ELSE Move(sess, "F", "A")
      ELSE IF cs = "A_PART6" /\ it1 THEN Move(sess, "F", "A")
      ELSE IF cs = "F" /\ it1 THEN
        IF SaysYes(Get(sess.collected_data, "F", EmptyDict),
                   "has_employment_income")
        THEN Move(sess, "M", "F")
        ELSE Move(sess, "F2", "F")
      ELSE IF cs = "M" /\ it1 THEN Move(sess, "F2", "M (PAYE)")
      ELSE IF cs = "F2" /\ it1 THEN Move(sess, "H", "F2")
      ELSE IF cs = "H" /\ it1 THEN Move(sess, "K", "H")
      ELSE IF cs = "K" /\ it1 THEN Move(sess, "N", "K")
      ELSE IF cs = "N" /\ it1 THEN Move(sess, "O", "N")
      ELSE IF cs = "O" /\ it1 THEN Move(sess, "P", "O")
      ELSE IF cs = "P" /\ it1 THEN Move(sess, "Q", "P")
      ELSE IF cs = "Q" /\ it1 THEN AfterQ(sess, BuildPending(sess.collected_data))
      ELSE IF cs = "VAT_A" /\ vat3 THEN Move(sess, "VAT_B", "VAT3 A")
      ELSE IF cs = "VAT_B" /\ vat3 THEN Move(sess, "VAT_C", "VAT3 B")
      ELSE IF cs = "VAT_C" /\ vat3 THEN Move(sess, "VAT_D", "VAT3 C")
      ELSE IF cs = "VAT_D" /\ vat3 THEN Move(sess, "VAT_E", "VAT3 D")
      ELSE IF cs = "VAT_E" /\ vat3 THEN Move(sess, "VAT_F", "VAT3 E")
      ELSE IF cs = "VAT_F" /\ vat3 THEN
        \* line 567 sets current_section; line 568 names cl_user_session,
        \* which is not defined: NameError
        Fail([sess EXCEPT !.current_section = "VAT_G"], << >>)
      ELSE IF cs = "VAT_G" /\ vat3 THEN Move(sess, "VAT_H", "VAT3 G")
      ELSE IF cs = "VAT_H" /\ vat3 THEN Move(sess, "VAT_I", "VAT3 H")
      ELSE IF cs = "VAT_I" /\ vat3 THEN
        \* line 615 sets current_section; line 616: NameError
        Fail([sess EXCEPT !.current_section = "VAT_J"], << >>)
      ELSE IF cs \in {"VAT_J", "VAT_K"} /\ vat3 THEN
        \* lines 631 and 647: NameError in the first statement
        Fail(sess, << >>)
      ELSE IF cs = "VAT_L" /\ vat3 THEN
        \* the summary is sent (its figures are left out), filing_started is
        \* cleared, and line 685 raises NameError
        Fail([sess EXCEPT !.filing_started = FALSE],
             << Completed("VAT3 L"), Note("vat_summary") >>)
      ELSE IF cs \in {"J", "L", "R"} /\ it1 THEN AfterPending(sess)
      ELSE Nothing(sess)

\* the body of the branch taken
Apply(step, rows) ==
  IF step.kind = "move"
    THEN MoveTo(step.sess, rows, step.section, step.label)
  ELSE IF step.kind = "raise"
    THEN Raise(step.sess, step.msgs, rows)
  ELSE IF step.kind = "compute"
    THEN ComputeAndAudit(step.sess, rows, step.section)
  ELSE Out(step.sess, << >>, rows, NoCall, FALSE)

Advance(sess, rows) ==
  With(Transition(sess), LAMBDA step : Apply(step, rows))

\* lines 91-114: a filing begins
Begin(sess, type, section) ==
  Out([sess EXCEPT !.filing_started = TRUE,
                   !.filing_type = type,
                   !.current_section = section,
                   !.current_section_data = section,
                   !.section_responses = EmptyDict],
      << SectionMessage(section),
         Ask(section, FirstQuestion(section), IF type = "IT1" THEN 1 ELSE 0) >>,
      << >>, NoCall, FALSE)

Routed(sess, intent, workflow) ==
  IF workflow = "help_response"
    THEN Out(sess, << Note("help") >>, << >>, NoCall, FALSE)
  ELSE IF workflow = "filing_workflow" /\ intent.filing_type \in {"IT1", "VAT3"}
    THEN Begin(sess, intent.filing_type,
               IF intent.filing_type = "IT1" THEN "A_PART1" ELSE "VAT_A")
  ELSE IF workflow = "filing_workflow"
    THEN Out(sess, << Note("specify") >>, << >>, NoCall, FALSE)
  ELSE Out(sess, << >>, << >>, NoCall, FALSE)

\* the branch of main for a session with no filing in progress
RouteMessage(sess, user_input) ==
  With(detect_intent(user_input), LAMBDA intent :
    Routed(sess, intent, route_to_workflow(intent)))

\* RejectAnswer with a fault seeded: the question index moves on
RejectAnswer_Advancing(sess, current_question) ==
  Out([sess EXCEPT !.current_question_index = @ + 1],
      << Note("validation_error"),
         Ask(sess.current_section, current_question, 0) >>,
      << >>, NoCall, FALSE)

\* validation failed: the error and the same question again, nothing else
RejectAnswer(sess, current_question) ==
  Out(sess,
      << Note("validation_error"),
         Ask(sess.current_section, current_question, 0) >>,
      << >>, NoCall, FALSE)

\* lines 138-145: the answer goes into section_responses and collected_data
Record(sess, field_name, validated_value) ==
  [sess EXCEPT
     !.section_responses = Put(@, field_name, validated_value),
     !.collected_data =
        Put(@, sess.current_section,
            Put(Get(@, sess.current_section, EmptyDict), field_name,
                validated_value))]

\* lines 147-158: the row save_response inserts
FilingRow(recorded, session_id, field_name, validated_value) ==
  [ kra_pin |-> PyStr(Get(Get(recorded.collected_data, "A_PART1", EmptyDict),
                          "kra_pin", StrVal(<< "U", "N", "K", "N", "O", "W", "N" >>))),
    filing_type |-> IF recorded.filing_type = "None" THEN "UNKNOWN"
                    ELSE recorded.filing_type,
    section |-> recorded.current_section,
    field_name |-> field_name,
    field_value |-> PyStr(validated_value),
    session_id |-> session_id ]

\* lines 166-177: the next question of the section, or the transition chain
Proceed(recorded, rows, next_question) ==
  IF next_question # NoQuestion
  THEN Out([recorded EXCEPT !.current_question_index = @ + 1],
           << Ask(recorded.current_section, next_question,
                  IF recorded.current_section = "A_PART1"
                  THEN recorded.current_question_index + 2 ELSE 0) >>,
           rows, NoCall, FALSE)
  ELSE Advance(recorded, rows)

\* validation passed: record, persist, then the next question or Advance
AcceptAnswer(sess, session_id, current_question, validated_value) ==
  With(Record(sess, current_question.field, validated_value), LAMBDA recorded :
  With(<< FilingRow(recorded, session_id, current_question.field,
                    validated_value) >>, LAMBDA rows :
  With(get_next_question(recorded.current_section,
                         SectionData(recorded.current_section_data),
                         recorded.section_responses), LAMBDA next_question :
    Proceed(recorded, rows, next_question))))

\* the branch of main for a session with a filing in progress (lines
\* 116-177); "if current_question:" has no else branch
AnswerMessage(sess, session_id, user_input) ==
  With(get_next_question(sess.current_section,
                         SectionData(sess.current_section_data),
                         sess.section_responses), LAMBDA current_question :
    IF current_question = NoQuestion
    THEN Out(sess, << >>, << >>, NoCall, FALSE)
    ELSE
      With(validate_response(current_question.field, user_input),
           LAMBDA validation_result :
        IF ~validation_result.valid
        THEN RejectAnswer(sess, current_question)
        ELSE
          With(IF validation_result.has_value
               THEN validation_result.value
               ELSE StrVal(user_input), LAMBDA validated_value :
            AcceptAnswer(sess, session_id, current_question,
                         validated_value))))

\* main(message): one run of the on_message handler, up to the audit hand-off
main(sess, session_id, user_input) ==
  IF ~detect_prompt_injection(user_input).safe
    THEN Out(sess, << Note("warning") >>, << >>, NoCall, FALSE)
  ELSE IF ~sess.filing_started
    THEN RouteMessage(sess, user_input)
  ELSE AnswerMessage(sess, session_id, user_input)

---------------------------------------------------------------------------
(* The silent audit: src/tools/audit/truth_data_tools.py,                  *)
(* src/tools/audit/risk_analysis_tools.py, src/database/db_manager.py and  *)
(* src/agents/audit_workflow_agent.py.                                     *)
(*                                                                         *)
(* truth is what the six truth tables hold for the taxpayer; fault names  *)
(* the database call of the run that raises ("none": no call raises).     *)

NoTruth ==
  [ bank_transactions |-> << >>, mpesa_transactions |-> << >>,
    vehicle_assets |-> << >>, property_assets |-> << >>,
    import_records |-> << >>, telco_usage |-> << >> ]

TruthProfiles ==
  { NoTruth,
    [NoTruth EXCEPT !.telco_usage = << [monthly_bill |-> 3000] >>],
    [NoTruth EXCEPT
       !.bank_transactions = << [type |-> "CREDIT", amount |-> 3000000],
                                [type |-> "DEBIT", amount |-> 400000] >>,
       !.vehicle_assets = << [estimated_value |-> 2000000],
                             [estimated_value |-> 1500000] >>],
    [NoTruth EXCEPT
       !.bank_transactions = << [type |-> "CREDIT", amount |-> 9000000] >>,
       !.mpesa_transactions =
          << [transaction_type |-> "RECEIVE", amount |-> 1000000],
             [transaction_type |-> "SEND", amount |-> 200000] >>,
       !.vehicle_assets = << [estimated_value |-> 25000000] >>,
       !.property_assets = << [estimated_value |-> 60000000] >>,
       !.import_records = << [value |-> 6000000] >>,
       !.telco_usage = << [monthly_bill |-> 9000] >>] }

FetchCalls ==
  { "get_bank_transactions", "get_mpesa_transactions", "get_vehicle_assets",
    "get_property_assets", "get_import_records", "get_telco_usage" }
Faults == {"none"} \cup FetchCalls \cup {"create_audit_case", "log_access"}

RECURSIVE Sum(_)
Sum(numbers) == IF numbers = << >> THEN 0 ELSE Head(numbers) + Sum(Tail(numbers))

Amounts(rows) == [i \in 1..Len(rows) |-> rows[i].amount]

fetch_bank_data(truth) ==
  LET transactions == truth.bank_transactions
  IN  IF transactions = << >>
      THEN [total_inflows |-> 0, has_data |-> FALSE]
      ELSE [total_inflows |->
              Sum(Amounts(SelectSeq(transactions, LAMBDA t : t.type = "CREDIT"))),
            has_data |-> TRUE]

fetch_mpesa_data(truth) ==
  LET transactions == truth.mpesa_transactions
  IN  IF transactions = << >>
      THEN [total_received |-> 0, has_data |-> FALSE]
      ELSE [total_received |->
              Sum(Amounts(SelectSeq(transactions,
                                    LAMBDA t : t.transaction_type = "RECEIVE"))),
            has_data |-> TRUE]

fetch_vehicle_data(truth) ==
  LET vehicles == truth.vehicle_assets
  IN  IF vehicles = << >>
      THEN [vehicle_count |-> 0, total_value |-> 0, has_data |-> FALSE]
      ELSE [vehicle_count |-> Len(vehicles),
            total_value |->
              Sum([i \in 1..Len(vehicles) |-> vehicles[i].estimated_value]),
            has_data |-> TRUE]

fetch_property_data(truth) ==
  LET properties == truth.property_assets
  IN  IF properties = << >>
      THEN [property_count |-> 0, total_value |-> 0, has_data |-> FALSE]
      ELSE [property_count |-> Len(properties),
            total_value |->
              Sum([i \in 1..Len(properties) |-> properties[i].estimated_value]),
            has_data |-> TRUE]

fetch_import_data(truth) ==
  LET imports == truth.import_records
  IN  IF imports = << >>
      THEN [import_count |-> 0, total_value |-> 0, has_data |-> FALSE]
      ELSE [import_count |-> Len(imports),
            total_value |-> Sum([i \in 1..Len(imports) |-> imports[i].value]),
            has_data |-> TRUE]

fetch_telco_data(truth) ==
  [has_data |-> truth.telco_usage # << >>]

\* the dict build_wealth_profile returns, from the six fetched dicts
WealthProfile(bank_data, mpesa_data, vehicle_data, property_data, import_data, telco_data) ==
  [ bank |-> bank_data, mpesa |-> mpesa_data, vehicles |-> vehicle_data,
    properties |-> property_data, imports |-> import_data,
    telco |-> telco_data,
    has_any_data |->
      \/ bank_data.has_data \/ mpesa_data.has_data
      \/ vehicle_data.has_data \/ property_data.has_data
      \/ import_data.has_data \/ telco_data.has_data ]

build_wealth_profile(truth) ==
  WealthProfile(fetch_bank_data(truth), fetch_mpesa_data(truth),
                fetch_vehicle_data(truth), fetch_property_data(truth),
                fetch_import_data(truth), fetch_telco_data(truth))

\* calculate_inferred_income with a fault seeded: the imports count as income
calculate_inferred_income_imports(wealth_profile) ==
    (IF wealth_profile.bank.has_data
       THEN wealth_profile.bank.total_inflows ELSE 0)
  + (IF wealth_profile.mpesa.has_data
       THEN wealth_profile.mpesa.total_received ELSE 0)
  + (IF wealth_profile.imports.has_data
       THEN wealth_profile.imports.total_value ELSE 0)

calculate_inferred_income(wealth_profile) ==
    (IF wealth_profile.bank.has_data
       THEN wealth_profile.bank.total_inflows ELSE 0)
  + (IF wealth_profile.mpesa.has_data
       THEN wealth_profile.mpesa.total_received ELSE 0)

\* detect_discrepancy with a fault seeded: the division is not guarded
detect_discrepancy_unguarded(declared, inferred) ==
  [ declared_income |-> declared,
    inferred_income |-> inferred,
    discrepancy_amount |-> inferred - declared,
    discrepancy_percentage |-> << (inferred - declared) * 100, declared >>,
    has_discrepancy |-> inferred - declared > 0 ]

\* detect_discrepancy; the percentage is kept as the fraction
\* << numerator, denominator >>: discrepancy * 100 over declared when
\* declared > 0, and 100 over 1 otherwise
detect_discrepancy(declared, inferred) ==
  [ declared_income |-> declared,
    inferred_income |-> inferred,
    discrepancy_amount |-> inferred - declared,
    discrepancy_percentage |->
      IF declared > 0 THEN << (inferred - declared) * 100, declared >>
      ELSE << 100, 1 >>,
    has_discrepancy |-> inferred - declared > 0 ]

\* PercentageAbove with a fault seeded: the bounds are not strict
PercentageAbove_OrEqual(declared, inferred, p) ==
  IF declared > 0
  THEN (inferred - declared) * 10 >= (p \div 10) * declared
  ELSE 100 >= p

\* discrepancy_percentage > p, for p a multiple of 10: the percentage is
\* (inferred - declared) / declared * 100 when declared > 0, and 100 otherwise
PercentageAbove(declared, inferred, p) ==
  IF declared > 0
  THEN (inferred - declared) * 10 > (p \div 10) * declared
  ELSE 100 > p

\* calculate_risk_score with a fault seeded: the sum is not capped
calculate_risk_score_uncapped(declared, inferred, assets) ==
  LET discrepancy ==
        IF PercentageAbove(declared, inferred, 200) THEN 40
        ELSE IF PercentageAbove(declared, inferred, 100) THEN 30
        ELSE IF PercentageAbove(declared, inferred, 50) THEN 20
        ELSE IF PercentageAbove(declared, inferred, 20) THEN 10
        ELSE 0
      vehicles ==
        IF ~assets.vehicles.has_data THEN 0
        ELSE IF assets.vehicles.total_value > 20000000 THEN 25
        ELSE IF assets.vehicles.total_value > 10000000 THEN 15
        ELSE IF assets.vehicles.vehicle_count >= 2 THEN 10
        ELSE 0
      properties ==
        IF ~assets.properties.has_data THEN 0
        ELSE IF assets.properties.total_value > 50000000 THEN 25
        ELSE IF assets.properties.total_value > 20000000 THEN 15
        ELSE IF assets.properties.property_count >= 3 THEN 10
        ELSE 0
      imports ==
        IF assets.imports.has_data /\ assets.imports.total_value > 5000000
        THEN 15 ELSE 0
      undeclared == IF declared = 0 /\ inferred > 1000000 THEN 20 ELSE 0
  IN  discrepancy + vehicles + properties + imports + undeclared

\* calculate_risk_score with a fault seeded: the two vehicle tiers swapped
calculate_risk_score_tiers(declared, inferred, assets) ==
  LET discrepancy ==
        IF PercentageAbove(declared, inferred, 200) THEN 40
        ELSE IF PercentageAbove(declared, inferred, 100) THEN 30
        ELSE IF PercentageAbove(declared, inferred, 50) THEN 20
        ELSE IF PercentageAbove(declared, inferred, 20) THEN 10
        ELSE 0
      vehicles ==
        IF ~assets.vehicles.has_data THEN 0
        ELSE IF assets.vehicles.total_value > 20000000 THEN 15
        ELSE IF assets.vehicles.total_value > 10000000 THEN 25
        ELSE IF assets.vehicles.vehicle_count >= 2 THEN 10
        ELSE 0
      properties ==
        IF ~assets.properties.has_data THEN 0
        ELSE IF assets.properties.total_value > 50000000 THEN 25
        ELSE IF assets.properties.total_value > 20000000 THEN 15
        ELSE IF assets.properties.property_count >= 3 THEN 10
        ELSE 0
      imports ==
        IF assets.imports.has_data /\ assets.imports.total_value > 5000000
        THEN 15 ELSE 0
      undeclared == IF declared = 0 /\ inferred > 1000000 THEN 20 ELSE 0
  IN  Min(discrepancy + vehicles + properties + imports + undeclared, 100)

calculate_risk_score(declared, inferred, assets) ==
  LET discrepancy ==
        IF PercentageAbove(declared, inferred, 200) THEN 40
        ELSE IF PercentageAbove(declared, inferred, 100) THEN 30
        ELSE IF PercentageAbove(declared, inferred, 50) THEN 20
        ELSE IF PercentageAbove(declared, inferred, 20) THEN 10
        ELSE 0
      vehicles ==
        IF ~assets.vehicles.has_data THEN 0
        ELSE IF assets.vehicles.total_value > 20000000 THEN 25
        ELSE IF assets.vehicles.total_value > 10000000 THEN 15
        ELSE IF assets.vehicles.vehicle_count >= 2 THEN 10
        ELSE 0
      properties ==
        IF ~assets.properties.has_data THEN 0
        ELSE IF assets.properties.total_value > 50000000 THEN 25
        ELSE IF assets.properties.total_value > 20000000 THEN 15
        ELSE IF assets.properties.property_count >= 3 THEN 10
        ELSE 0
      imports ==
        IF assets.imports.has_data /\ assets.imports.total_value > 5000000
        THEN 15 ELSE 0
      undeclared == IF declared = 0 /\ inferred > 1000000 THEN 20 ELSE 0
  IN  Min(discrepancy + vehicles + properties + imports + undeclared, 100)

\* determine_risk_level with a fault seeded: HIGH from 60
determine_risk_level_from60(score) ==
  IF score >= 60 THEN "HIGH" ELSE IF score >= 31 THEN "MEDIUM" ELSE "LOW"

determine_risk_level(score) ==
  IF score >= 61 THEN "HIGH" ELSE IF score >= 31 THEN "MEDIUM" ELSE "LOW"

\* adk_config.get_risk_threshold: the first of LOW 0..30, MEDIUM 31..60 and
\* HIGH 61..100 whose range holds the score
get_risk_threshold(score) ==
  IF 0 <= score /\ score <= 30 THEN "LOW"
  ELSE IF 31 <= score /\ score <= 60 THEN "MEDIUM"
  ELSE IF 61 <= score /\ score <= 100 THEN "HIGH"
  ELSE "UNKNOWN"

\* db_manager.create_audit_case: the INSERT, then log_access
create_audit_case(kra_pin, risk_score, risk_level, declared_income, inferred_income, fault) ==
  [ rows |-> IF fault = "create_audit_case" THEN << >>
             ELSE << [ kra_pin |-> kra_pin,
                       risk_score |-> risk_score,
                       risk_level |-> risk_level,
                       declared_income |-> declared_income,
                       inferred_income |-> inferred_income,
                       discrepancy_amount |-> inferred_income - declared_income ] >>,
    raised |-> fault \in {"create_audit_case", "log_access"},
    created |-> TRUE ]

\* create_audit_case_if_risky with a fault seeded: MEDIUM creates a case too
create_audit_case_if_risky_medium(kra_pin, analysis, fault) ==
  IF analysis.risk_level \in {"HIGH", "MEDIUM"}
  THEN create_audit_case(kra_pin, analysis.risk_score, analysis.risk_level,
                         analysis.declared_income, analysis.inferred_income,
                         fault)
  ELSE [rows |-> << >>, raised |-> FALSE, created |-> FALSE]

create_audit_case_if_risky(kra_pin, analysis, fault) ==
  IF analysis.risk_level = "HIGH"
  THEN create_audit_case(kra_pin, analysis.risk_score, analysis.risk_level,
                         analysis.declared_income, analysis.inferred_income,
                         fault)
  ELSE [rows |-> << >>, raised |-> FALSE, created |-> FALSE]

\* What run_full_risk_analysis hands back: the analysis, or raised |-> TRUE
\* when a database call raised; rows are the audit cases the run inserted
\* either way.
Raised(rows) ==
  [ raised |-> TRUE, rows |-> rows, risk_level |-> "", risk_score |-> 0,
    audit_case_created |-> FALSE ]
Returned(rows, risk_level, risk_score, audit_case_created) ==
  [ raised |-> FALSE, rows |-> rows, risk_level |-> risk_level,
    risk_score |-> risk_score, audit_case_created |-> audit_case_created ]

\* lines 152-176: the inferred income, the score, the level, the analysis
\* dict and the case step
Scored(kra_pin, declared_income, wealth_profile, fault) ==
  With(calculate_inferred_income(wealth_profile), LAMBDA inferred_income :
  With(calculate_risk_score(declared_income, inferred_income, wealth_profile),
       LAMBDA risk_score :
  With([ declared_income |-> declared_income,
         inferred_income |-> inferred_income,
         risk_score |-> risk_score,
         risk_level |-> determine_risk_level(risk_score) ], LAMBDA analysis :
  With(create_audit_case_if_risky(kra_pin, analysis, fault), LAMBDA made :
    IF made.raised THEN Raised(made.rows)
    ELSE Returned(made.rows, analysis.risk_level, analysis.risk_score,
                  made.created)))))

\* Analysed with a fault seeded: no early return
Analysed_NoEarlyReturn(kra_pin, declared_income, wealth_profile, fault) ==
  Scored(kra_pin, declared_income, wealth_profile, fault)

\* lines 143-150: the early return when no source has data
Analysed(kra_pin, declared_income, wealth_profile, fault) ==
  IF ~wealth_profile.has_any_data
  THEN Returned(<< >>, "LOW", 0, FALSE)
  ELSE Scored(kra_pin, declared_income, wealth_profile, fault)

run_full_risk_analysis(kra_pin, declared_income, truth, fault) ==
  IF fault \in FetchCalls
  THEN Raised(<< >>)
  ELSE With(build_wealth_profile(truth), LAMBDA wealth_profile :
         Analysed(kra_pin, declared_income, wealth_profile, fault))

\* The dict execute_silent_audit returns: the key 'risk_level' is present
\* only in the dict of the try branch.
AuditResult(analysis) ==
  IF analysis.raised
  THEN [ success |-> FALSE, has_risk_level |-> FALSE, risk_level |-> "",
         risk_score |-> 0, case_created |-> FALSE, rows |-> analysis.rows ]
  ELSE [ success |-> TRUE, has_risk_level |-> TRUE,
         risk_level |-> analysis.risk_level,
         risk_score |-> analysis.risk_score,
         case_created |-> analysis.audit_case_created,
         rows |-> analysis.rows ]

execute_silent_audit(kra_pin, declared_income, truth, fault) ==
  With(run_full_risk_analysis(kra_pin, declared_income, truth, fault),
       LAMBDA analysis : AuditResult(analysis))

\* line 163 formats result['risk_level'] for the log line: KeyError when the
\* dict has no such key
LogResult(result) == [result |-> result, raised |-> ~result.has_risk_level]

\* trigger_audit_workflow runs the audit in the caller's thread
trigger_audit_workflow(kra_pin, declared_income, truth, fault) ==
  With(execute_silent_audit(kra_pin, declared_income, truth, fault),
       LAMBDA result : LogResult(result))

\* The end of main after trigger_background_audit: the two session writes
\* when the call returned, the exception report when it raised.
AfterAudit(sess, msgs, triggered) ==
  IF triggered.raised
  THEN [sess |-> sess, msgs |-> msgs \o << Note("error") >>]
  ELSE [sess |-> FinishFiling(sess), msgs |-> msgs]

---------------------------------------------------------------------------
(* What the user types.                                                    *)

S_No == << "N", "o" >>
S_abc == << "a", "b", "c" >>
GoodPin == << "A", "1", "2", "3", "4", "5", "6", "7", "8", "9", "P" >>
BadPin == << "A", "1", "2", "P" >>
GoodDate == << "2", "0", "2", "4", "-", "0", "1", "-", "3", "1" >>
BadDate == << "2", "0", "2", "4", "-", "1", "3", "-", "0", "1" >>
GoodAmount == << "5", "0", "0", "0", "0", "0" >>
S_it1 == << "f", "i", "l", "e", " ", "i", "t", "1" >>
S_vat3 == << "f", "i", "l", "e", " ", "v", "a", "t", "3" >>
S_help == << "h", "e", "l", "p" >>

\* the Yes/No questions the user answers either way; every other one gets
\* a single answer
FlagAnswers(field) ==
  CASE field \in {"has_mortgage", "has_insurance", "has_foreign_income",
                  "has_disability"} -> {S_Yes, S_No}
    [] field = "has_employment_income" -> {S_Yes, S_yes, S_No}
    [] field \in {"is_audited", "has_hosp", "paid_income_tax_advance",
                  "has_16_sales", "has_exempt_sales",
                  "has_16_purchases"} -> {S_Yes}
    [] OTHER -> {S_No}

\* the answer the question text asks for
Natural(expects) ==
  CASE expects = "pin" -> GoodPin
    [] expects = "date" -> GoodDate
    [] expects = "kes" -> GoodAmount
    [] OTHER -> S_abc

\* a malformed answer of the kind the question text asks for
Malformed(expects) ==
  CASE expects = "pin" -> {BadPin}
    [] expects = "date" -> {BadDate}
    [] expects = "kes" -> {S_abc}
    [] OTHER -> {}

Refused(field, text) == ~validate_response(field, text).valid

\* The user answers a question as its text asks, may first try a malformed
\* answer where the validator refuses it, and, where the validator refuses
\* the natural answer, goes on to a date or an amount.
Answers(question) ==
  IF question.expects = "yesno" THEN FlagAnswers(question.field)
  ELSE {Natural(question.expects)}
       \cup {text \in Malformed(question.expects) : Refused(question.field, text)}
       \cup (IF ~Refused(question.field, Natural(question.expects)) THEN {}
             ELSE IF ~Refused(question.field, GoodDate) THEN {GoodDate}
             ELSE {GoodAmount})

AnswersTo(question) ==
  IF question = NoQuestion THEN {S_abc} ELSE Answers(question)

Inputs(sess) ==
  {InjectionText}
  \cup (IF ~sess.filing_started THEN {S_it1, S_vat3, S_help}
        ELSE AnswersTo(get_next_question(sess.current_section,
                                         SectionData(sess.current_section_data),
                                         sess.section_responses)))

---------------------------------------------------------------------------
(* The state machine.                                                      *)

Sessions == {"s1"}

NoResult ==
  [ success |-> FALSE, has_risk_level |-> FALSE, risk_level |-> "",
    risk_score |-> 0, case_created |-> FALSE, rows |-> << >> ]

NoAudit ==
  [ status |-> "none", session |-> "", kra_pin |-> NoneVal,
    declared_income |-> 0, truth |-> NoTruth, fault |-> "none",
    triggered |-> [result |-> NoResult, raised |-> FALSE] ]

Init ==
  /\ session = [s \in Sessions |-> start]
  /\ last_msgs = [s \in Sessions |-> << Note("welcome") >>]
  /\ db_filings = << >>
  /\ audit_cases = << >>
  /\ pc = [s \in Sessions |-> "idle"]
  /\ audit = NoAudit
  /\ filings_begun = [s \in Sessions |-> 0]

\* OnMessage with a fault seeded: the session keys are kept in one place for
\* all sessions
OnMessage_Shared(s, user_input) ==
  /\ audit.status = "none"
  /\ pc[s] = "idle"
  /\ \E out \in {main(session[s], s, user_input)} :
     \E begins \in {out.sess.filing_started /\ ~session[s].filing_started} :
        /\ begins => filings_begun[s] < MaxFilings
        /\ session' = [t \in DOMAIN session |-> out.sess]
        /\ last_msgs' = [last_msgs EXCEPT ![s] = out.msgs]
        /\ db_filings' = db_filings \o out.rows
        /\ filings_begun' =
             [filings_begun EXCEPT ![s] = IF begins THEN @ + 1 ELSE @]
        /\ IF out.call.requested
           THEN /\ pc' = [pc EXCEPT ![s] = "audit"]
                /\ audit' = [NoAudit EXCEPT !.status = "running",
                                            !.session = s,
                                            !.kra_pin = out.call.kra_pin,
                                            !.declared_income =
                                               out.call.declared_income]
           ELSE UNCHANGED << pc, audit >>
  /\ UNCHANGED audit_cases

\* One message of session s handled by main.  When main reaches
\* trigger_background_audit the handler stays inside that call (pc "audit");
\* the call runs in the handler's thread, so no other handler runs until it
\* returns.
OnMessage(s, user_input) ==
  /\ audit.status = "none"
  /\ pc[s] = "idle"
  /\ \E out \in {main(session[s], s, user_input)} :
     \E begins \in {out.sess.filing_started /\ ~session[s].filing_started} :
        /\ begins => filings_begun[s] < MaxFilings
        /\ session' = [session EXCEPT ![s] = out.sess]
        /\ last_msgs' = [last_msgs EXCEPT ![s] = out.msgs]
        /\ db_filings' = db_filings \o out.rows
        /\ filings_begun' =
             [filings_begun EXCEPT ![s] = IF begins THEN @ + 1 ELSE @]
        /\ IF out.call.requested
           THEN /\ pc' = [pc EXCEPT ![s] = "audit"]
                /\ audit' = [NoAudit EXCEPT !.status = "running",
                                            !.session = s,
                                            !.kra_pin = out.call.kra_pin,
                                            !.declared_income =
                                               out.call.declared_income]
           ELSE UNCHANGED << pc, audit >>
  /\ UNCHANGED audit_cases

\* trigger_audit_workflow up to the return of execute_silent_audit, for the
\* truth data the tables hold and the database call that raises, if any
RunAudit(truth, fault) ==
  /\ audit.status = "running"
  /\ \E triggered \in {trigger_audit_workflow(audit.kra_pin,
                                               audit.declared_income,
                                               truth, fault)} :
        /\ audit' = [audit EXCEPT !.status = "returned", !.truth = truth,
                                  !.fault = fault, !.triggered = triggered]
        /\ audit_cases' = audit_cases \o triggered.result.rows
  /\ UNCHANGED << session, last_msgs, db_filings, pc, filings_begun >>

\* the log line of trigger_audit_workflow and the rest of main
ReturnFromAudit ==
  /\ audit.status = "returned"
  /\ \E s \in {audit.session} :
     \E after \in {AfterAudit(session[s], last_msgs[s], audit.triggered)} :
        /\ session' = [session EXCEPT ![s] = after.sess]
        /\ last_msgs' = [last_msgs EXCEPT ![s] = after.msgs]
        /\ pc' = [pc EXCEPT ![s] = "idle"]
  /\ audit' = NoAudit
  /\ UNCHANGED << db_filings, audit_cases, filings_begun >>

Next ==
  \/ \E s \in Sessions : \E user_input \in Inputs(session[s]) :
        OnMessage(s, user_input)
  \/ \E truth \in TruthProfiles : \E fault \in Faults : RunAudit(truth, fault)
  \/ ReturnFromAudit

Spec == Init /\ [][Next]_vars

\* A message of session s that main accepts as the answer to a question.
ValidAnswer ==
  \E s \in Sessions : \E user_input \in Inputs(session[s]) :
    /\ session[s].filing_started
    /\ OnMessage(s, user_input)
    /\ Len(db_filings') > Len(db_filings)

AuditRuns == \E truth \in TruthProfiles : \E fault \in Faults : RunAudit(truth, fault)

\* The user keeps supplying valid answers, and code that has been called runs
\* to its end: the audit call and the rest of the handler after it.
LiveSpec ==
  /\ Init
  /\ [][Next]_vars
  /\ WF_vars(ValidAnswer)
  /\ WF_vars(AuditRuns)
  /\ WF_vars(ReturnFromAudit)

---------------------------------------------------------------------------
(* Properties.                                                             *)

\* every text the user types in the model
AllTexts ==
  { S_Yes, S_yes, S_No, S_abc, GoodPin, BadPin, GoodDate, BadDate, GoodAmount }

\* the question session s is waiting on
CurrentQuestion(s) ==
  get_next_question(session[s].current_section,
                    SectionData(session[s].current_section_data),
                    session[s].section_responses)

Idle(s) == pc[s] = "idle" /\ audit.status = "none"

\* the questions among the messages of the last handler run
QuestionsIn(msgs) == {i \in 1..Len(msgs) : msgs[i].kind = "question"}

\* C1: when an answer fails validation the handler leaves the session as it
\* was (current section, section answers, collected answers, pending queue,
\* question index), inserts no row, and sends the error followed by the same
\* question.
C1_RejectionKeepsState ==
  \A s \in Sessions :
    (session[s].filing_started /\ Idle(s) /\ CurrentQuestion(s) # NoQuestion) =>
      \A text \in AllTexts :
        (/\ detect_prompt_injection(text).safe
         /\ Refused(CurrentQuestion(s).field, text)) =>
          /\ main(session[s], s, text).sess = session[s]
          /\ main(session[s], s, text).rows = << >>
          /\ main(session[s], s, text).msgs =
               << Note("validation_error"),
                  Ask(session[s].current_section, CurrentQuestion(s), 0) >>
          /\ ~main(session[s], s, text).call.requested
          /\ ~main(session[s], s, text).raised

\* C1 witness: a rejection has just happened and the question stands
C1_Witness ==
  \E s \in Sessions :
    /\ session[s].filing_started
    /\ Len(last_msgs[s]) = 2
    /\ last_msgs[s][1].kind = "validation_error"
    /\ last_msgs[s][2].field = CurrentQuestion(s).field
    /\ session[s].current_section = "A_PART1"
    /\ DOMAIN session[s].section_responses = {"kra_pin", "return_type"}

\* C2: an audit run that fails leaves the filing interaction as a successful
\* one does: when the handler comes back from trigger_background_audit it
\* sends nothing more and resets the session.
C2_AuditFailureIsContained ==
  [][ \A s \in Sessions :
        (audit.status = "returned" /\ audit.session = s /\ audit'.status = "none")
          => /\ session'[s] = FinishFiling(session[s])
             /\ last_msgs'[s] = last_msgs[s] ]_vars

\* C3: an IT1 filing whose user keeps supplying valid answers ends: the
\* computation runs and the session is reset.
C3_IT1FilingTerminates ==
  \A s \in Sessions :
    (session[s].filing_started /\ session[s].filing_type = "IT1")
      ~> (~session[s].filing_started /\ session[s].collected_data = EmptyDict)

VATOrder ==
  << "VAT_A", "VAT_B", "VAT_C", "VAT_D", "VAT_E", "VAT_F", "VAT_G", "VAT_H",
     "VAT_I", "VAT_J", "VAT_K", "VAT_L" >>

\* C4: a VAT3 filing goes through VAT_A ... VAT_L one after the other, and,
\* its user supplying valid answers, reaches the VAT summary and is reset.
C4_VAT3LinearToSummary ==
  /\ [][ \A s \in Sessions :
           (/\ session[s].filing_started
            /\ session[s].filing_type = "VAT3"
            /\ session'[s].current_section # session[s].current_section)
             => \E i \in 1..(Len(VATOrder) - 1) :
                  /\ session[s].current_section = VATOrder[i]
                  /\ session'[s].current_section = VATOrder[i + 1] ]_vars
  /\ \A s \in Sessions :
       (session[s].filing_started /\ session[s].filing_type = "VAT3")
         ~> (/\ ~session[s].filing_started
             /\ \E i \in 1..Len(last_msgs[s]) : last_msgs[s][i].kind = "vat_summary")

C6_NoDataIsLowZero ==
  (/\ audit.status = "returned"
   /\ audit.fault \notin FetchCalls
   /\ ~build_wealth_profile(audit.truth).has_any_data) =>
    /\ audit.triggered.result.success
    /\ audit.triggered.result.risk_score = 0
    /\ audit.triggered.result.risk_level = "LOW"
    /\ ~audit.triggered.result.case_created
    /\ audit.triggered.result.rows = << >>

\* C6 witness: such a run has come back for a filing that declared no income
C6_Witness ==
  /\ audit.status = "returned"
  /\ audit.fault = "none"
  /\ audit.truth = NoTruth
  /\ audit.declared_income = 0
  /\ audit.triggered.result.risk_level = "LOW"

\* C7: what the handler does after the audit (messages, session) is the same
\* for any two truth data of the taxpayer, everything else being equal.
C7_AuditOutcomeNotExposed ==
  \A s \in Sessions :
    (audit.status = "running" /\ audit.session = s) =>
      \A fault \in Faults : \A t1, t2 \in TruthProfiles :
        AfterAudit(session[s], last_msgs[s],
                   trigger_audit_workflow(audit.kra_pin, audit.declared_income,
                                          t1, fault))
        = AfterAudit(session[s], last_msgs[s],
                     trigger_audit_workflow(audit.kra_pin, audit.declared_income,
                                            t2, fault))

\* C8: the session is reset when the audit is dispatched, not when it has
\* finished: while the audit run is in progress the session is already idle.
C8_ResetDoesNotWaitForAudit ==
  \A s \in Sessions :
    (audit.status \in {"running", "returned"} /\ audit.session = s) =>
      (~session[s].filing_started /\ session[s].collected_data = EmptyDict)

\* C9: a question the handler asks is for a field with no answer recorded in
\* the active section; within a section pass a recorded answer is never
\* written again, and within a filing a section is entered once and a
\* collected answer is never replaced; the question asked last is asked
\* again only by a run that rejected the answer.
C9_NoReaskNoRewrite ==
  [][ \A s \in Sessions :
        LET old == session[s]
            new == session'[s]
            sent == last_msgs'[s]
        IN  /\ (new.filing_started /\ sent # last_msgs[s]) =>
                 \A i \in QuestionsIn(sent) :
                   /\ sent[i].section = new.current_section
                   /\ sent[i].field \notin DOMAIN new.section_responses
            /\ (/\ old.filing_started /\ new.filing_started
                /\ new.current_section = old.current_section) =>
                 /\ \A f \in DOMAIN old.section_responses :
                      /\ f \in DOMAIN new.section_responses
                      /\ new.section_responses[f] = old.section_responses[f]
                 /\ Cardinality(DOMAIN new.section_responses
                                  \ DOMAIN old.section_responses) <= 1
            /\ (old.filing_started /\ new.current_section # old.current_section) =>
                 new.current_section \notin DOMAIN new.collected_data
            /\ (old.filing_started /\ new.collected_data # EmptyDict) =>
                 \A section \in DOMAIN old.collected_data :
                   \A f \in DOMAIN old.collected_data[section] :
                     new.collected_data[section][f] = old.collected_data[section][f]
            /\ (sent # last_msgs[s]) =>
                 \A i \in QuestionsIn(last_msgs[s]) : \A j \in QuestionsIn(sent) :
                   (/\ sent[j].section = last_msgs[s][i].section
                    /\ sent[j].field = last_msgs[s][i].field)
                     => sent[1].kind = "validation_error" ]_vars

\* C9 witness: section M has recorded employer_pin, a field section F also
\* has, and has gone on to its next question
C9_Witness ==
  \E s \in Sessions :
    /\ session[s].filing_started
    /\ session[s].current_section = "M"
    /\ DOMAIN session[s].section_responses = {"employer_pin"}
    /\ last_msgs[s] = << Msg("question", "M", "employer_name", 0, << >>) >>

\* the answered unconditional fields of the current section are a prefix of
\* its question list, and a conditional field is answered only after all of
\* them
PrefixAnswered(s) ==
  LET questions == SectionData(session[s].current_section).questions
      answered == DOMAIN Get(session[s].collected_data,
                             session[s].current_section, EmptyDict)
      plain == {questions[i].field : i \in 1..Len(questions)}
  IN  /\ \A i \in 1..Len(questions) :
           questions[i].field \in answered =>
             \A j \in 1..i : questions[j].field \in answered
      /\ (answered \ plain # {}) => plain \subseteq answered

\* C10: while a filing is in progress an answer is written under the current
\* section only, and the answered unconditional fields of the current section
\* form a prefix of its question list.
C10_WritesFollowSectionOrder ==
  /\ [](\A s \in Sessions : session[s].filing_started => PrefixAnswered(s))
  /\ [][ \A s \in Sessions :
           session[s].filing_started =>
             /\ \A section \in DOMAIN session'[s].collected_data :
                  section # session[s].current_section =>
                    /\ section \in DOMAIN session[s].collected_data
                    /\ session'[s].collected_data[section]
                         = session[s].collected_data[section]
             /\ \A i \in (Len(db_filings) + 1)..Len(db_filings') :
                  db_filings'[i].session_id = s =>
                    db_filings'[i].section = session[s].current_section ]_vars

\* C10 witness: five of the twelve questions of A_PART1 are answered
C10_Witness ==
  \E s \in Sessions :
    /\ session[s].filing_started
    /\ session[s].current_section = "A_PART1"
    /\ "A_PART1" \in DOMAIN session[s].collected_data
    /\ DOMAIN session[s].collected_data["A_PART1"]
         = {"kra_pin", "return_type", "period_from", "period_to",
            "has_other_income"}

---------------------------------------------------------------------------
(* Properties of the section order.                                        *)

\* the answer to a flag of the return-information section is "yes",
\* ignoring case and surrounding blanks
FlagIsYes(collected, section, field) ==
  /\ section \in DOMAIN collected
  /\ field \in DOMAIN collected[section]
  /\ collected[section][field].t = "str"
  /\ Lower(Strip(collected[section][field].s)) = << "y", "e", "s" >>

OptionalSections == << "J", "L", "R" >>

TriggerFlag(section) ==
  CASE section = "J" -> "has_mortgage"
    [] section = "L" -> "has_insurance"
    [] section = "R" -> "has_foreign_income"

\* place of a section in the order Q, J, L, R
OptionalRank(section) ==
  CASE section = "Q" -> 0
    [] section = "J" -> 1
    [] section = "L" -> 2
    [] section = "R" -> 3
    [] OTHER -> 4

\* the handler of session s has just handed the filing to the computation
ComputationStarts(s) ==
  audit.status = "none" /\ audit'.status = "running" /\ audit'.session = s

\* C11: when section Q of an IT1 filing completes, the section entered next
\* followed by the pending queue is J, L, R restricted to the sections whose
\* flag in A_PART1 is yes and that are not in the collected data (nothing is
\* entered and the computation starts when there is none); J, L and R are
\* entered from Q or from an earlier one of them only, so each at most once
\* and in that order.
C11_PendingQueueOrder ==
  [][ \A s \in Sessions :
        LET old == session[s]
            new == session'[s]
            wanted == SelectSeq(OptionalSections,
                        LAMBDA section :
                          /\ FlagIsYes(new.collected_data, "A_PART1",
                                       TriggerFlag(section))
                          /\ section \notin DOMAIN new.collected_data)
        IN  /\ (/\ old.filing_started /\ old.filing_type = "IT1"
                /\ old.current_section = "Q"
                /\ (new.current_section # "Q" \/ ComputationStarts(s))) =>
                  IF wanted = << >>
                  THEN ComputationStarts(s) /\ new.current_section = "Q"
                  ELSE /\ ~ComputationStarts(s)
                       /\ << new.current_section >> \o new.pending_sections
                            = wanted
            /\ (/\ old.filing_started
                /\ new.current_section # old.current_section
                /\ new.current_section \in {"J", "L", "R"}) =>
                  /\ old.current_section \in {"Q", "J", "L", "R"}
                  /\ OptionalRank(old.current_section)
                       < OptionalRank(new.current_section) ]_vars

\* C11 witness: all three flags were yes; J is done, L is being asked and R
\* is the one section still queued
C11_Witness ==
  \E s \in Sessions :
    /\ session[s].filing_started
    /\ session[s].current_section = "L"
    /\ session[s].pending_sections = << "R" >>
    /\ "J" \in DOMAIN session[s].collected_data
    /\ "Q" \in DOMAIN session[s].collected_data

\* the messages of the handler run that ends in the next state ask the first
\* question of the section
AsksFirstQuestionOf(s, section) ==
  \E i \in QuestionsIn(last_msgs'[s]) :
    /\ last_msgs'[s][i].section = section
    /\ last_msgs'[s][i].field = SectionData(section).questions[1].field

\* C12: when Q or a queued section completes with sections still queued, the
\* head of the queue is entered, its first question is asked and the queue
\* is popped, and the computation does not start; when none is queued the
\* computation starts.  So the computation starts with an empty queue and
\* with every flagged section answered.
C12_ComputationAfterQueue ==
  [][ \A s \in Sessions :
        LET old == session[s]
            new == session'[s]
            completes == /\ old.filing_started /\ old.filing_type = "IT1"
                         /\ old.current_section \in {"Q", "J", "L", "R"}
                         /\ \/ new.current_section # old.current_section
                            \/ ComputationStarts(s)
        IN  /\ (completes /\ old.current_section # "Q"
                  /\ old.pending_sections # << >>) =>
                  /\ new.current_section = Head(old.pending_sections)
                  /\ new.pending_sections = Tail(old.pending_sections)
                  /\ AsksFirstQuestionOf(s, new.current_section)
                  /\ ~ComputationStarts(s)
            /\ (completes /\ old.current_section # "Q"
                  /\ old.pending_sections = << >>) => ComputationStarts(s)
            /\ (completes /\ old.current_section = "Q"
                  /\ ~ComputationStarts(s)) =>
                  AsksFirstQuestionOf(s, new.current_section)
            /\ ComputationStarts(s) =>
                  /\ new.pending_sections = << >>
                  /\ old.filing_type = "IT1"
                  /\ old.current_section \in {"Q", "J", "L", "R"}
                  /\ \A i \in 1..Len(OptionalSections) :
                       FlagIsYes(new.collected_data, "A_PART1",
                                 TriggerFlag(OptionalSections[i]))
                         => OptionalSections[i] \in DOMAIN new.collected_data ]_vars

\* C12 witness: the computation has started after J, L and R were all asked
C12_Witness ==
  \E s \in Sessions :
    /\ audit.status = "running" /\ audit.session = s
    /\ session[s].current_section = "R"
    /\ session[s].pending_sections = << >>
    /\ {"J", "L", "R"} \subseteq DOMAIN session[s].collected_data

\* C13: an IT1 filing leaves A_PART3 for A_PART6 when has_disability in
\* A_PART1 is yes and for F otherwise, leaves A_PART6 for F, and enters
\* A_PART6 in no other way.
C13_DisabilitySectionOnFlag ==
  [][ \A s \in Sessions :
        LET old == session[s]
            new == session'[s]
            flagged == FlagIsYes(old.collected_data, "A_PART1", "has_disability")
        IN  (/\ old.filing_started /\ old.filing_type = "IT1"
             /\ new.current_section # old.current_section) =>
              /\ old.current_section = "A_PART3" =>
                   new.current_section = IF flagged THEN "A_PART6" ELSE "F"
              /\ old.current_section = "A_PART6" => new.current_section = "F"
              /\ new.current_section = "A_PART6" =>
                   old.current_section = "A_PART3" /\ flagged
              /\ new.current_section = "F" =>
                   old.current_section \in {"A_PART3", "A_PART6"} ]_vars

\* C13 witness: the disability section was answered and F is being asked
C13_Witness ==
  \E s \in Sessions :
    /\ session[s].filing_started
    /\ session[s].current_section = "F"
    /\ "A_PART6" \in DOMAIN session[s].collected_data
    /\ session[s].section_responses = EmptyDict

\* C14: an IT1 filing leaves F for M when has_employment_income in F is yes
\* and for F2 otherwise, leaves M for F2, and enters M in no other way; a
\* filing that is in M or has answers of M has that flag yes.
C14_PAYEOnlyWithEmployment ==
  /\ [](\A s \in Sessions :
          (/\ session[s].filing_started /\ session[s].filing_type = "IT1"
           /\ \/ session[s].current_section = "M"
              \/ "M" \in DOMAIN session[s].collected_data) =>
            FlagIsYes(session[s].collected_data, "F", "has_employment_income"))
  /\ [][ \A s \in Sessions :
           LET old == session[s]
               new == session'[s]
               declared == FlagIsYes(new.collected_data, "F",
                                     "has_employment_income")
           IN  (/\ old.filing_started /\ old.filing_type = "IT1"
                /\ new.current_section # old.current_section) =>
                 /\ old.current_section = "F" =>
                      new.current_section = IF declared THEN "M" ELSE "F2"
                 /\ old.current_section = "M" => new.current_section = "F2"
                 /\ new.current_section = "M" =>
                      old.current_section = "F" /\ declared
                 /\ new.current_section = "F2" =>
                      old.current_section \in {"F", "M"} ]_vars

\* C14 witness: section M was answered and F2 is being asked
C14_Witness ==
  \E s \in Sessions :
    /\ session[s].filing_started
    /\ session[s].current_section = "F2"
    /\ "M" \in DOMAIN session[s].collected_data

\* C15: a flag answered yes, in whatever letter case, unlocks the
\* sub-questions of its section as it unlocks the section transitions: in a
\* filing in progress, every section left behind whose flag is yes ignoring
\* case has all the sub-questions of that flag answered (so section M is
\* entered with the employment sub-questions of F answered).
C15_YesIgnoringCase ==
  \A s \in Sessions :
    session[s].filing_started =>
      \A section \in DOMAIN session[s].collected_data
                       \ {session[s].current_section} :
        \A i \in 1..Len(SectionData(section).conditional_questions) :
          LET entry == SectionData(section).conditional_questions[i]
          IN  (/\ Lower(entry.value) = << "y", "e", "s" >>
               /\ FlagIsYes(session[s].collected_data, section, entry.field)) =>
                \A j \in 1..Len(entry.questions) :
                  entry.questions[j].field
                    \in DOMAIN session[s].collected_data[section]

---------------------------------------------------------------------------
(* Properties of the audit hand-off.                                       *)

\* the handler run of session s that ends in the next state sent a summary
SendsSummary(s) ==
  /\ Idle(s)
  /\ last_msgs'[s] # last_msgs[s]
  /\ \E i \in 1..Len(last_msgs'[s]) :
       last_msgs'[s][i].kind \in {"summary", "vat_summary"}

\* C16: an audit run is triggered by the handler run that completes a
\* filing and by no other: that run records the answer to the last open
\* question (so it happens once for the filing), leaves no question and no
\* queued section, has sent the summary of the computation, and passes the
\* kra_pin collected in A_PART1 and the total income of the computation; a
\* run that sends a summary triggers the audit.
C16_AuditOnCompletionOnly ==
  [][ \A s \in Sessions :
        LET old == session[s]
            new == session'[s]
        IN  /\ ComputationStarts(s) =>
                 /\ old.filing_started
                 /\ CurrentQuestion(s) # NoQuestion
                 /\ Len(db_filings') = Len(db_filings) + 1
                 /\ get_next_question(new.current_section,
                                      SectionData(new.current_section_data),
                                      new.section_responses) = NoQuestion
                 /\ new.pending_sections = << >>
                 /\ SendsSummary(s)
                 /\ "A_PART1" \in DOMAIN new.collected_data
                 /\ "kra_pin" \in DOMAIN new.collected_data["A_PART1"]
                 /\ audit'.kra_pin = new.collected_data["A_PART1"]["kra_pin"]
                 /\ audit'.declared_income
                      = section_t_tax_computation(new.collected_data).total_income
            /\ SendsSummary(s) => ComputationStarts(s)
            /\ (audit'.status = "running" /\ audit.status # "running") =>
                 \E t \in Sessions : ComputationStarts(t) ]_vars

\* C16 witness: the audit of a filing that declared income is running
C16_Witness ==
  /\ audit.status = "running"
  /\ audit.kra_pin = StrVal(GoodPin)
  /\ audit.declared_income > 0
  /\ \E s \in Sessions :
       /\ audit.session = s
       /\ session[s].collected_data["A_PART1"]["kra_pin"] = StrVal(GoodPin)

---------------------------------------------------------------------------
(* Two chat sessions.  Chainlit keeps one user_session per connection;     *)
(* router and filing_agent are shared by all of them, and so are the       *)
(* filings table and the thread the handlers run in.                       *)

Sessions2 == {"s1", "s2"}

\* messages the second session sends while the first one files its return
MaxOtherMessages == 2

\* one answer per question (yes to the mortgage flag), and both answers to
\* the insurance flag
OneAnswer(question) ==
  IF question = NoQuestion THEN {S_abc}
  ELSE IF question.field = "has_insurance" THEN {S_Yes, S_No}
  ELSE IF question.field = "has_mortgage" THEN {S_Yes}
  ELSE IF question.expects = "yesno"
       THEN (IF S_No \in FlagAnswers(question.field) THEN {S_No}
             ELSE FlagAnswers(question.field))
  ELSE IF ~Refused(question.field, Natural(question.expects))
       THEN {Natural(question.expects)}
  ELSE IF ~Refused(question.field, GoodDate) THEN {GoodDate}
  ELSE {GoodAmount}

Inputs2(sess) ==
  IF ~sess.filing_started THEN {S_it1, S_vat3}
  ELSE OneAnswer(get_next_question(sess.current_section,
                                   SectionData(sess.current_section_data),
                                   sess.section_responses))

\* messages of session s handled so far: a filing begun or an answer saved
Handled(s) ==
  filings_begun[s]
    + Len(SelectSeq(db_filings, LAMBDA row : row.session_id = s))

Init2 ==
  /\ session = [s \in Sessions2 |-> start]
  /\ last_msgs = [s \in Sessions2 |-> << Note("welcome") >>]
  /\ db_filings = << >>
  /\ audit_cases = << >>
  /\ pc = [s \in Sessions2 |-> "idle"]
  /\ audit = NoAudit
  /\ filings_begun = [s \in Sessions2 |-> 0]

Next2 ==
  \/ \E user_input \in Inputs2(session["s1"]) : OnMessage("s1", user_input)
  \/ /\ Handled("s2") < MaxOtherMessages
     /\ \E user_input \in Inputs2(session["s2"]) : OnMessage("s2", user_input)
  \/ \E truth \in TruthProfiles : \E fault \in Faults : RunAudit(truth, fault)
  \/ ReturnFromAudit

TwoSpec == Init2 /\ [][Next2]_vars

\* The session states one session passes through when it is the only one:
\* what main leaves in the session after each message, and what the rest of
\* the handler leaves after the audit call.
SoloSteps(sess) ==
  UNION { With(main(sess, "s1", user_input), LAMBDA out :
            IF out.call.requested
            THEN {out.sess}
                 \cup { AfterAudit(out.sess, out.msgs,
                          trigger_audit_workflow(out.call.kra_pin,
                                                 out.call.declared_income,
                                                 truth, fault)).sess :
                        truth \in TruthProfiles, fault \in Faults }
            ELSE {out.sess})
          : user_input \in Inputs2(sess) }

\* one more message for every state found last
SoloAdvance(run) ==
  With(UNION {SoloSteps(sess) : sess \in run.frontier} \ run.seen,
       LAMBDA fresh : [seen |-> run.seen \cup fresh, frontier |-> fresh])

\* 2^SoloDepth messages, more than a session takes to come back to a state
\* it has been in
SoloDepth == 8

RECURSIVE SoloAdvances(_, _)
SoloAdvances(run, depth) ==
  IF run.frontier = {} THEN run
  ELSE IF depth = 0 THEN SoloAdvance(run)
  ELSE With(SoloAdvances(run, depth - 1),
            LAMBDA half : SoloAdvances(half, depth - 1))

SoloRun == SoloAdvances([seen |-> {start}, frontier |-> {start}], SoloDepth)

SoloStates == SoloRun.seen

\* the filing a session holds: its type, section, answers and queue
FilingView(sess) ==
  << sess.filing_type, sess.current_section, sess.collected_data,
     sess.section_responses, sess.pending_sections >>

\* C17: with two sessions sending messages in any order, a step that handles
\* a message of one session (or finishes its handler after the audit call)
\* leaves the other session's filing type, current section, recorded answers
\* and pending queue, and all the rest of its session, as they were; and
\* every state either session is in is a state a session running alone
\* passes through.
C17_SessionsIndependent ==
  /\ [](/\ SoloRun.frontier = {}
        /\ \A s \in Sessions2 : session[s] \in SoloStates)
  /\ [][ \A s \in Sessions2 : \A other \in Sessions2 \ {s} :
           session'[s] # session[s] =>
             /\ FilingView(session'[other]) = FilingView(session[other])
             /\ session'[other] = session[other]
             /\ last_msgs'[other] = last_msgs[other]
             /\ pc'[other] = pc[other] ]_vars

\* both sessions are in the middle of a filing, of different types, and the
\* first one has answers recorded after the second one's last message
C17_Witness ==
  /\ session["s1"].filing_started /\ session["s1"].filing_type = "IT1"
  /\ session["s2"].filing_started /\ session["s2"].filing_type = "VAT3"
  /\ session["s2"].section_responses # << >>
  /\ session["s1"].pending_sections # << >>
  /\ Len(db_filings) > 0
  /\ db_filings[Len(db_filings)].session_id = "s1"
  /\ Handled("s2") = MaxOtherMessages

---------------------------------------------------------------------------
(* Properties of the audit run.                                            *)

\* the truth table a fetch reads
TableOf(call) ==
  CASE call = "get_bank_transactions" -> "bank_transactions"
    [] call = "get_mpesa_transactions" -> "mpesa_transactions"
    [] call = "get_vehicle_assets" -> "vehicle_assets"
    [] call = "get_property_assets" -> "property_assets"
    [] call = "get_import_records" -> "import_records"
    [] call = "get_telco_usage" -> "telco_usage"

\* the truth data with the table of the failing fetch read as holding nothing
Unavailable(truth, call) == [truth EXCEPT ![TableOf(call)] = << >>]

\* C18: when the fetch of a truth-data source fails during an audit run, the
\* run still succeeds, and its score, level and case decision are the ones
\* computed with that source treated as having no data.
C18_FetchFailureDegrades ==
  (audit.status = "returned" /\ audit.fault \in FetchCalls) =>
    LET expected == execute_silent_audit(audit.kra_pin, audit.declared_income,
                                         Unavailable(audit.truth, audit.fault),
                                         "none")
        result == audit.triggered.result
    IN  /\ result.success
        /\ result.has_risk_level
        /\ result.risk_score = expected.risk_score
        /\ result.risk_level = expected.risk_level
        /\ result.case_created = expected.case_created

\* Inputs of calculate_risk_score: incomes on both sides of every tier of the
\* discrepancy percentage, and assets on both sides of every tier of value
\* and count.
DeclaredIncomes == {-100000, 0, 500000, 1000000, 4000000}
InferredIncomes ==
  {0, 600000, 1000000, 1200000, 1300000, 1500000, 1600000, 2000000, 2500000,
   3000000, 3500000, 9000000, 13000000}

VehicleData(vehicle_count, total_value) ==
  [vehicle_count |-> vehicle_count, total_value |-> total_value,
   has_data |-> vehicle_count > 0]
PropertyData(property_count, total_value) ==
  [property_count |-> property_count, total_value |-> total_value,
   has_data |-> property_count > 0]
ImportData(import_count, total_value) ==
  [import_count |-> import_count, total_value |-> total_value,
   has_data |-> import_count > 0]

VehicleValues == {5000000, 10000000, 15000000, 20000000, 25000000}
PropertyValues == {10000000, 20000000, 30000000, 50000000, 60000000}
ImportValues == {1000000, 5000000, 6000000}

VehicleProfiles ==
  {VehicleData(0, 0)}
  \cup {VehicleData(vehicle_count, total_value) :
          vehicle_count \in {1, 2}, total_value \in VehicleValues}
PropertyProfiles ==
  {PropertyData(0, 0)}
  \cup {PropertyData(property_count, total_value) :
          property_count \in {1, 3}, total_value \in PropertyValues}
ImportProfiles ==
  {ImportData(0, 0)}
  \cup {ImportData(1, total_value) : total_value \in ImportValues}

Assets(vehicle_data, property_data, import_data) ==
  [vehicles |-> vehicle_data, properties |-> property_data,
   imports |-> import_data]

AssetProfiles ==
  {Assets(vehicle_data, property_data, import_data) :
     vehicle_data \in VehicleProfiles, property_data \in PropertyProfiles,
     import_data \in ImportProfiles}

\* an audit run has returned an analysis
Scored_Run == audit.status = "returned" /\ audit.triggered.result.success

\* the inputs for which calculate_risk_score returns a score outside 0..100
ScoresOutOfRange ==
  { input \in DeclaredIncomes \X InferredIncomes \X AssetProfiles :
      calculate_risk_score(input[1], input[2], input[3]) \notin 0..100 }

\* C19: the score calculate_risk_score returns is within 0..100 for every
\* declared income, inferred income and asset profile, the ones whose
\* components sum to more than 100 included, and so is the score of every
\* audit run.
C19_ScoreWithinRange ==
  /\ ScoresOutOfRange = {}
  /\ Scored_Run => audit.triggered.result.risk_score \in 0..100

\* an audit run whose components sum to 105: 40 or 20 + 20 for the incomes,
\* 25 for the vehicles, 25 for the properties and 15 for the imports
C19_Witness ==
  /\ Scored_Run
  /\ LET wealth_profile == build_wealth_profile(audit.truth)
         inferred == calculate_inferred_income(wealth_profile)
     IN  /\ wealth_profile.vehicles.total_value > 20000000
         /\ wealth_profile.properties.total_value > 50000000
         /\ wealth_profile.imports.total_value > 5000000
         /\ \/ PercentageAbove(audit.declared_income, inferred, 200)
            \/ audit.declared_income = 0 /\ inferred > 1000000
  /\ audit.triggered.result.risk_score = 100

\* discrepancy_percentage as a fraction of 100: (inferred - declared) over
\* declared when declared > 0, and 1 over 1 otherwise; in units of 100,000,
\* of which every income above is a multiple
Percentage(declared, inferred) ==
  IF declared > 0
  THEN << (inferred - declared) \div 100000, declared \div 100000 >>
  ELSE << 1, 1 >>

\* the second percentage is higher than the first
PercentageRaised(first, second) == first[1] * second[2] < second[1] * first[2]

\* the +20 for a declared income of zero with an inferred income above
\* 1,000,000
UndeclaredTerm(declared, inferred) == declared = 0 /\ inferred > 1000000

Incomes == DeclaredIncomes \X InferredIncomes

\* asset profiles the incomes are compared under: none, some, and the ones
\* that reach the cap
IncomeAssets ==
  { Assets(VehicleData(0, 0), PropertyData(0, 0), ImportData(0, 0)),
    Assets(VehicleData(2, 5000000), PropertyData(1, 30000000),
           ImportData(1, 1000000)),
    Assets(VehicleData(1, 25000000), PropertyData(1, 60000000),
           ImportData(1, 6000000)) }

\* pairs of incomes, the second with the higher percentage and the lower
\* score
PercentageLowerings ==
  { pair \in Incomes \X Incomes \X IncomeAssets :
      /\ PercentageRaised(Percentage(pair[1][1], pair[1][2]),
                          Percentage(pair[2][1], pair[2][2]))
      /\ calculate_risk_score(pair[2][1], pair[2][2], pair[3])
           < calculate_risk_score(pair[1][1], pair[1][2], pair[3]) }

\* the ones of them that agree on the term for a declared income of zero
SameTermLowerings ==
  { pair \in PercentageLowerings :
      UndeclaredTerm(pair[1][1], pair[1][2])
        = UndeclaredTerm(pair[2][1], pair[2][2]) }

\* incomes the asset values are compared under
AssetIncomes ==
  { << 0, 2000000 >>, << 500000, 0 >>, << 1000000, 1300000 >>,
    << 1000000, 3500000 >> }

\* the asset profiles with one value raised: the vehicle value, the property
\* value or the import value, the counts as they are
RaisedAssets(assets) ==
  { [assets EXCEPT !.vehicles.total_value = total_value] :
      total_value \in {value \in VehicleValues :
                         /\ assets.vehicles.has_data
                         /\ value >= assets.vehicles.total_value} }
  \cup
  { [assets EXCEPT !.properties.total_value = total_value] :
      total_value \in {value \in PropertyValues :
                         /\ assets.properties.has_data
                         /\ value >= assets.properties.total_value} }
  \cup
  { [assets EXCEPT !.imports.total_value = total_value] :
      total_value \in {value \in ImportValues :
                         /\ assets.imports.has_data
                         /\ value >= assets.imports.total_value} }

\* inputs for which raising one asset value lowers the score
ValueLowerings ==
  { input \in AssetIncomes \X AssetProfiles :
      \E raised \in RaisedAssets(input[2]) :
        calculate_risk_score(input[1][1], input[1][2], raised)
          < calculate_risk_score(input[1][1], input[1][2], input[2]) }

\* the assets of the audit run, and its score with one asset value raised
RunAssets ==
  With(build_wealth_profile(audit.truth), LAMBDA wealth_profile :
    Assets(wealth_profile.vehicles, wealth_profile.properties,
           wealth_profile.imports))
RunScores ==
  With(build_wealth_profile(audit.truth), LAMBDA wealth_profile :
    { calculate_risk_score(audit.declared_income,
                           calculate_inferred_income(wealth_profile), raised) :
      raised \in RaisedAssets(RunAssets) })

\* an audit run that has computed a score from its wealth profile
Scored_FromData ==
  Scored_Run /\ build_wealth_profile(audit.truth).has_any_data

\* C20 as stated: raising the discrepancy percentage, the vehicle value, the
\* property value or the import value never lowers the score of
\* calculate_risk_score.
C20_ScoreMonotone ==
  /\ PercentageLowerings = {}
  /\ ValueLowerings = {}
  /\ Scored_FromData =>
       \A score \in RunScores : score >= audit.triggered.result.risk_score

\* C20 amended: raising the vehicle value, the property value or the import
\* value never lowers the score, and neither does raising the discrepancy
\* percentage between two inputs that agree on the term for a declared
\* income of zero (both get its +20 or neither does).
C20_ScoreMonotoneSameTerm ==
  /\ SameTermLowerings = {}
  /\ ValueLowerings = {}
  /\ Scored_FromData =>
       \A score \in RunScores : score >= audit.triggered.result.risk_score

\* an audit run whose score is higher with one of its asset values raised
C20_Witness ==
  /\ Scored_FromData
  /\ \E score \in RunScores : score > audit.triggered.result.risk_score

---------------------------------------------------------------------------
(* The scoring rules, written out as the reference they are compared to.   *)

\* the tier of a discrepancy percentage given as a fraction of 100: above
\* 200% 40, above 100% 30, above 50% 20, above 20% 10, all strictly
DiscrepancyTier(percentage) ==
  IF percentage[1] > 2 * percentage[2] THEN 40
  ELSE IF percentage[1] > percentage[2] THEN 30
  ELSE IF 2 * percentage[1] > percentage[2] THEN 20
  ELSE IF 5 * percentage[1] > percentage[2] THEN 10
  ELSE 0

VehicleTerm(vehicle_count, total_value) ==
  IF total_value > 20000000 THEN 25
  ELSE IF total_value > 10000000 THEN 15
  ELSE IF vehicle_count >= 2 THEN 10
  ELSE 0

PropertyTerm(property_count, total_value) ==
  IF total_value > 50000000 THEN 25
  ELSE IF total_value > 20000000 THEN 15
  ELSE IF property_count >= 3 THEN 10
  ELSE 0

ReferenceScore(declared, inferred, assets) ==
  Min(  DiscrepancyTier(Percentage(declared, inferred))
      + VehicleTerm(assets.vehicles.vehicle_count, assets.vehicles.total_value)
      + PropertyTerm(assets.properties.property_count,
                     assets.properties.total_value)
      + (IF assets.imports.total_value > 5000000 THEN 15 ELSE 0)
      + (IF UndeclaredTerm(declared, inferred) THEN 20 ELSE 0),
      100)

\* the inputs for which calculate_risk_score differs from the reference
ScoreMismatches ==
  { input \in DeclaredIncomes \X InferredIncomes \X AssetProfiles :
      calculate_risk_score(input[1], input[2], input[3])
        # ReferenceScore(input[1], input[2], input[3]) }

\* the inferred income of the audit run
RunInferred == calculate_inferred_income(build_wealth_profile(audit.truth))

\* C21: calculate_risk_score equals the sum, capped at 100, of the
\* discrepancy tier, the vehicle term, the property term, 15 for an import
\* value above 5,000,000 and 20 for a declared income of exactly zero with
\* an inferred income above 1,000,000, on every input and in every audit
\* run that computes a score.
C21_ScoreIsReferenceFormula ==
  /\ ScoreMismatches = {}
  /\ Scored_FromData /\ audit.declared_income >= 0 =>
       audit.triggered.result.risk_score
         = Min(  (IF audit.declared_income = 0 THEN 20
                  ELSE IF RunInferred - audit.declared_income
                            > 2 * audit.declared_income THEN 40
                  ELSE IF RunInferred - audit.declared_income
                            > audit.declared_income THEN 30
                  ELSE IF 2 * (RunInferred - audit.declared_income)
                            > audit.declared_income THEN 20
                  ELSE IF 5 * (RunInferred - audit.declared_income)
                            > audit.declared_income THEN 10
                  ELSE 0)
               + VehicleTerm(RunAssets.vehicles.vehicle_count,
                             RunAssets.vehicles.total_value)
               + PropertyTerm(RunAssets.properties.property_count,
                              RunAssets.properties.total_value)
               + (IF RunAssets.imports.total_value > 5000000 THEN 15 ELSE 0)
               + (IF UndeclaredTerm(audit.declared_income, RunInferred)
                  THEN 20 ELSE 0),
               100)

\* an audit run whose score is made of a discrepancy tier and the term for
\* two vehicles of low value, below the cap
C21_Witness ==
  /\ Scored_FromData
  /\ audit.declared_income > 0
  /\ RunAssets.vehicles.vehicle_count >= 2
  /\ audit.triggered.result.risk_score \in 11..99

\* the scores in 0..100 whose level is not HIGH from 61, MEDIUM from 31 to
\* 60 and LOW below, in determine_risk_level or in the threshold table
LevelMismatches ==
  { score \in 0..100 :
      \/ (determine_risk_level(score) = "HIGH") # (score >= 61)
      \/ (determine_risk_level(score) = "MEDIUM")
           # (31 <= score /\ score <= 60)
      \/ (determine_risk_level(score) = "LOW") # (score <= 30)
      \/ get_risk_threshold(score) # determine_risk_level(score) }

\* C22: for every score in 0..100 the risk level is HIGH exactly from 61,
\* MEDIUM exactly from 31 to 60 and LOW otherwise, and every audit run
\* reports the level of its score.
C22_LevelThresholds ==
  /\ LevelMismatches = {}
  /\ Scored_Run =>
       audit.triggered.result.risk_level
         = (IF audit.triggered.result.risk_score >= 61 THEN "HIGH"
            ELSE IF audit.triggered.result.risk_score >= 31 THEN "MEDIUM"
            ELSE "LOW")

\* an audit run with a score in the middle range
C22_Witness ==
  /\ Scored_FromData
  /\ audit.triggered.result.risk_score \in 31..60
  /\ audit.triggered.result.risk_level = "MEDIUM"

\* a fraction is a number (its denominator is not zero) above p
FractionAbove(fraction, p) == fraction[2] > 0 /\ fraction[1] > p * fraction[2]

\* the incomes, none declared below zero, for which the discrepancy is not
\* inferred minus declared, or the percentage is not discrepancy over
\* declared times 100 (exactly 100 for a declared income of zero), or the
\* tiers of calculate_risk_score see another percentage
DiscrepancyMismatches ==
  { income \in (DeclaredIncomes \cap Nat) \X InferredIncomes :
      With(detect_discrepancy(income[1], income[2]), LAMBDA found :
        \/ found.discrepancy_amount # income[2] - income[1]
        \/ found.discrepancy_percentage[2] = 0
        \/ income[1] > 0
             /\ found.discrepancy_percentage
                  # << (income[2] - income[1]) * 100, income[1] >>
        \/ income[1] = 0 /\ found.discrepancy_percentage # << 100, 1 >>
        \/ \E p \in {20, 50, 100, 200} :
             PercentageAbove(income[1], income[2], p)
               # FractionAbove(found.discrepancy_percentage, p)) }

\* C23: the discrepancy is inferred minus declared and the percentage is the
\* discrepancy over declared times 100; for a declared income of zero it is
\* exactly 100 and no division is made, so an audit run with nothing
\* declared computes its score, and every audit case records inferred minus
\* declared.
C23_DiscrepancyPercentage ==
  /\ DiscrepancyMismatches = {}
  /\ (audit.status = "returned" /\ audit.fault = "none"
        /\ audit.declared_income = 0) => Scored_Run
  /\ \A i \in 1..Len(audit_cases) :
       audit_cases[i].discrepancy_amount
         = audit_cases[i].inferred_income - audit_cases[i].declared_income

\* an audit run with nothing declared and a positive inferred income has
\* computed a score and recorded a case
C23_Witness ==
  /\ Scored_FromData
  /\ audit.declared_income = 0
  /\ RunInferred > 0
  /\ audit.triggered.result.case_created
  /\ audit_cases # << >>

\* the amounts of the rows of a table whose column holds the wanted kind
RECURSIVE TotalOf(_, _, _)
TotalOf(rows, column, kind) ==
  IF rows = << >> THEN 0
  ELSE (IF Head(rows)[column] = kind THEN Head(rows).amount ELSE 0)
         + TotalOf(Tail(rows), column, kind)

\* the bank total of credited inflows plus the mobile-money total received
CreditedAndReceived(truth) ==
  TotalOf(truth.bank_transactions, "type", "CREDIT")
    + TotalOf(truth.mpesa_transactions, "transaction_type", "RECEIVE")

\* the truth data with other vehicles, properties, imports and telecom usage
OtherSources(truth) ==
  { [truth EXCEPT !.vehicle_assets = vehicle_assets,
                  !.property_assets = property_assets,
                  !.import_records = import_records,
                  !.telco_usage = telco_usage] :
      vehicle_assets \in {<< >>, << [estimated_value |-> 25000000] >>},
      property_assets \in {<< >>, << [estimated_value |-> 60000000] >>},
      import_records \in {<< >>, << [value |-> 6000000] >>},
      telco_usage \in {<< >>, << [monthly_bill |-> 9000] >>} }

InferredOf(truth) == calculate_inferred_income(build_wealth_profile(truth))

\* the truth data whose inferred income is not the bank inflows plus the
\* mobile-money receipts, or changes with the other sources
InferredMismatches ==
  { truth \in TruthProfiles :
      \/ InferredOf(truth) # CreditedAndReceived(truth)
      \/ \E other \in OtherSources(truth) :
           InferredOf(other) # InferredOf(truth) }

\* C24: the inferred income is the bank total of credited inflows plus the
\* mobile-money total received, whatever the vehicle, property, import and
\* telecom data hold; every audit case records that sum as the inferred
\* income of its run.
C24_InferredIncome ==
  /\ InferredMismatches = {}
  /\ (Scored_Run /\ audit.triggered.result.case_created
        /\ audit.triggered.result.rows # << >>) =>
       audit.triggered.result.rows[1].inferred_income
         = CreditedAndReceived(audit.truth)

\* an audit case of a run whose truth data hold credits, debits, receipts,
\* sendings and every other source
C24_Witness ==
  /\ Scored_Run
  /\ audit.triggered.result.rows # << >>
  /\ audit.truth.vehicle_assets # << >>
  /\ audit.truth.import_records # << >>
  /\ audit.truth.mpesa_transactions # << >>
  /\ audit.triggered.result.rows[1].inferred_income = 10000000

---------------------------------------------------------------------------
(* The two computations, written out as the reference they are compared   *)
(* to.                                                                     *)

\* 10% up to 288,000, 25% from 288,000 to 388,000 and 30% above
BandTax(taxable_income) ==
    (Min(taxable_income, 288000) * 10) \div 100
  + (Min(Max(taxable_income - 288000, 0), 100000) * 25) \div 100
  + (Max(taxable_income - 388000, 0) * 30) \div 100

ReferenceIT1(total_income, pension_excess, mortgage_interest, hosp_deposit, insurance_relief, total_credits) ==
  LET taxable_income ==
        total_income - pension_excess
          - Max(mortgage_interest, Min(hosp_deposit, 96000))
      tax_after_reliefs ==
        Max(BandTax(taxable_income) - 28800 - Min(insurance_relief, 60000), 0)
  IN  [ total_income |-> total_income,
        taxable_income |-> taxable_income,
        tax_payable |-> BandTax(taxable_income),
        tax_after_reliefs |-> tax_after_reliefs,
        total_credits |-> total_credits,
        final_tax_due_or_refund |-> tax_after_reliefs - total_credits,
        finite |-> TRUE,
        status |-> IF tax_after_reliefs - total_credits > 0 THEN "TAX_DUE"
                   ELSE "REFUND_DUE" ]

\* an answer as it is stored: the text of a whole amount
Stored(amount) == StrVal(NatToChars(amount))

\* the collected answers that hold the six amounts
IT1Answers(gross_pay, pension_excess, interest_paid, hosp_deposit, insurance_relief, paye_deducted) ==
  [ section \in {"F", "J", "K", "L", "M"} |->
      CASE section = "F" ->
             [ field \in {"gross_pay", "pension_excess"} |->
                 IF field = "gross_pay" THEN Stored(gross_pay)
                 ELSE Stored(pension_excess) ]
        [] section = "J" ->
             [field \in {"interest_paid"} |-> Stored(interest_paid)]
        [] section = "K" ->
             [field \in {"hosp_deposit"} |-> Stored(hosp_deposit)]
        [] section = "L" ->
             [field \in {"insurance_relief"} |-> Stored(insurance_relief)]
        [] section = "M" ->
             [field \in {"paye_deducted"} |-> Stored(paye_deducted)] ]

\* amounts on both sides of every band and every cap
IT1Amounts ==
  {0, 200000, 288000, 300000, 388000, 1000000}
    \X {0, 50000} \X {0, 100000} \X {0, 50000, 120000} \X {0, 60000, 80000}
    \X {0, 150000}

\* the amounts for which section_t_tax_computation differs from the reference
IT1Mismatches ==
  { a \in IT1Amounts :
      section_t_tax_computation(IT1Answers(a[1], a[2], a[3], a[4], a[5], a[6]))
        # ReferenceIT1(a[1], a[2], a[3], a[4], a[5], a[6]) }

\* every source of income and every credit present, each with its own amount
AllIT1Fields ==
  [ section \in {"F", "F2", "H", "M", "N", "O", "P", "Q", "R"} |->
      CASE section = "F" ->
             [ field \in {"gross_pay", "allowances", "car_benefit_value",
                          "housing_value"} |->
                 CASE field = "gross_pay" -> Stored(400000)
                   [] field = "allowances" -> Stored(30000)
                   [] field = "car_benefit_value" -> Stored(2000)
                   [] field = "housing_value" -> Stored(100) ]
        [] section = "F2" -> [field \in {"gross_amount"} |-> Stored(50000)]
        [] section = "H" ->
             [field \in {"estate_income_amount"} |-> Stored(7000)]
        [] section = "M" -> [field \in {"paye_deducted"} |-> Stored(10000)]
        [] section = "N" -> [field \in {"amount_paid"} |-> Stored(2000)]
        [] section = "O" -> [field \in {"wht_amount"} |-> Stored(300)]
        [] section = "P" -> [field \in {"advance_tax_paid"} |-> Stored(40)]
        [] section = "Q" -> [field \in {"amount_paid"} |-> Stored(5)]
        [] section = "R" ->
             [field \in {"dtaa_relief_amount"} |-> Stored(600000)] ]

IT1Examples ==
  /\ section_t_tax_computation(AllIT1Fields)
       = ReferenceIT1(489100, 0, 0, 0, 0, 612345)
  /\ With(section_t_tax_computation(IT1Answers(1000000, 0, 0, 0, 60000, 150000)),
          LAMBDA result :
            /\ result.tax_payable = 237400
            /\ result.tax_after_reliefs = 148600
            /\ result.final_tax_due_or_refund = -1400
            /\ result.status = "REFUND_DUE")

\* the summary a handler has sent before it hands the filing to the audit
SummaryOf(s) ==
  CHOOSE message \in {last_msgs[s][i] : i \in 1..Len(last_msgs[s])} :
    message.kind = "summary"

\* the reference result for the answers session s has collected
ReferenceOf(collected) ==
  ReferenceIT1(  Amount(collected, "F", "gross_pay")
               + Amount(collected, "F", "allowances")
               + Amount(collected, "F", "car_benefit_value")
               + Amount(collected, "F", "housing_value")
               + Amount(collected, "F2", "gross_amount")
               + Amount(collected, "H", "estate_income_amount"),
               Amount(collected, "F", "pension_excess"),
               Amount(collected, "J", "interest_paid"),
               Amount(collected, "K", "hosp_deposit"),
               Amount(collected, "L", "insurance_relief"),
                 Amount(collected, "M", "paye_deducted")
               + Amount(collected, "N", "amount_paid")
               + Amount(collected, "O", "wht_amount")
               + Amount(collected, "P", "advance_tax_paid")
               + Amount(collected, "Q", "amount_paid")
               + Amount(collected, "R", "dtaa_relief_amount"))

\* C25: the IT1 computation is the reference formula: taxable income = total
\* income - pension excess - max(mortgage interest, min(HOSP deposit,
\* 96,000)), not floored at zero; the three bands; final amount = tax after
\* reliefs - the six credits; TAX_DUE exactly when the final amount is
\* positive; and the summary a filing ends with shows the reference figures
\* for the answers collected.
C25_IT1ReferenceFormula ==
  /\ IT1Mismatches = {}
  /\ IT1Examples
  /\ \A s \in Sessions :
       (pc[s] = "audit" /\ audit.status = "running") =>
         /\ SummaryOf(s).field = ReferenceOf(session[s].collected_data).status
         /\ SummaryOf(s).figures
              = SummaryFigures(SummaryOf(s).section,
                               ReferenceOf(session[s].collected_data))
         /\ audit.declared_income
              = ReferenceOf(session[s].collected_data).total_income

\* a filing with employment income in the third band and credits above the
\* tax has been summarised
C25_Witness ==
  \E s \in Sessions :
    /\ pc[s] = "audit" /\ audit.status = "running"
    /\ Amount(session[s].collected_data, "F", "gross_pay") > 388000
    /\ ReferenceOf(session[s].collected_data).tax_payable > 53800
    /\ ReferenceOf(session[s].collected_data).total_credits > 0
    /\ SummaryOf(s).field = "REFUND_DUE"

ReferenceVAT(sales_16, sales_8, purchases_16, purchases_8, non_deductible, imported_services, withheld, advance, self_assessment, credit_adjustment) ==
  LET output_vat == (16 * sales_16) \div 100 + (8 * sales_8) \div 100
      input_vat == (16 * purchases_16) \div 100 + (8 * purchases_8) \div 100
      deductible == input_vat - non_deductible + imported_services
      net_vat == output_vat - deductible - withheld
                   - (advance + self_assessment + credit_adjustment)
  IN  [ output_vat |-> output_vat, input_vat |-> input_vat,
        deductible_input_vat |-> deductible,
        net_vat_payable_credit |-> net_vat,
        status |-> IF net_vat > 0 THEN "VAT_PAYABLE"
                   ELSE "CREDIT_CARRIED_FORWARD" ]

\* the part of a result the reference gives
VATFigures(result) ==
  [ output_vat |-> result.output_vat, input_vat |-> result.input_vat,
    deductible_input_vat |-> result.deductible_input_vat,
    net_vat_payable_credit |-> result.net_vat_payable_credit,
    status |-> result.status ]

\* one field of one section
OneField(field, amount) == [f \in {field} |-> Stored(amount)]

\* the collected answers that hold the ten amounts; there are no exempt
\* sales, so nothing is non-deductible
VATAnswers(a) ==
  [ section \in {"VAT_B", "VAT_C", "VAT_F", "VAT_G", "VAT_J", "VAT_K",
                 "VAT_L"} |->
      CASE section = "VAT_B" -> OneField("taxable_value", a[1])
        [] section = "VAT_C" -> OneField("taxable_value", a[2])
        [] section = "VAT_F" -> OneField("taxable_value", a[3])
        [] section = "VAT_G" -> OneField("taxable_value", a[4])
        [] section = "VAT_J" -> OneField("vat_claimable", a[5])
        [] section = "VAT_L" -> OneField("vat_withheld", a[6])
        [] section = "VAT_K" ->
             [ field \in {"advance_payment_amount", "self_assessment_amount",
                          "credit_adjustment_amount"} |->
                 CASE field = "advance_payment_amount" -> Stored(a[7])
                   [] field = "self_assessment_amount" -> Stored(a[8])
                   [] field = "credit_adjustment_amount" -> Stored(a[9]) ] ]

\* amounts that make the net VAT positive, zero and negative
VATAmounts ==
  {0, 1000000} \X {0, 500000} \X {0, 600000, 1000000} \X {0, 500000}
    \X {0, 4000} \X {0, 64000} \X {0, 20000} \X {0, 3000} \X {0, 1000}

\* the amounts for which section_o_calculation differs from the reference
VATMismatches ==
  { a \in VATAmounts :
      VATFigures(section_o_calculation(VATAnswers(a)))
        # ReferenceVAT(a[1], a[2], a[3], a[4], 0, a[5], a[6], a[7], a[8],
                       a[9]) }

\* 16% sales of 1,000,000 and 16% purchases of 600,000; and the same with
\* exempt sales of 1,000,000, which make half of the input VAT non-deductible
VATExamples ==
  /\ With(section_o_calculation(
            [ section \in {"VAT_B", "VAT_F"} |->
                IF section = "VAT_B" THEN OneField("taxable_value", 1000000)
                ELSE OneField("taxable_value", 600000) ]),
          LAMBDA result :
            /\ result.output_vat = 160000
            /\ result.input_vat = 96000
            /\ result.net_vat_payable_credit = 64000
            /\ result.status = "VAT_PAYABLE")
  /\ VATFigures(section_o_calculation(
       [ section \in {"VAT_B", "VAT_E", "VAT_F"} |->
           CASE section = "VAT_B" -> OneField("taxable_value", 1000000)
             [] section = "VAT_E" -> OneField("exempt_sales_value", 1000000)
             [] section = "VAT_F" -> OneField("taxable_value", 600000) ]))
       = ReferenceVAT(1000000, 0, 600000, 0, 48000, 0, 0, 0, 0, 0)

\* the reference result for the answers a VAT3 filing has collected
ReferenceVATOf(collected) ==
  ReferenceVAT(Amount(collected, "VAT_B", "taxable_value"),
               Amount(collected, "VAT_C", "taxable_value"),
               Amount(collected, "VAT_F", "taxable_value"),
               Amount(collected, "VAT_G", "taxable_value"),
               section_o_calculation(collected).non_deductible_input_vat,
               Amount(collected, "VAT_J", "vat_claimable"),
               Amount(collected, "VAT_L", "vat_withheld"),
               Amount(collected, "VAT_K", "advance_payment_amount"),
               Amount(collected, "VAT_K", "self_assessment_amount"),
               Amount(collected, "VAT_K", "credit_adjustment_amount"))

\* C26: the VAT computation is the reference formula: output VAT = 16% of
\* the 16%-rate sales + 8% of the 8%-rate sales, input VAT likewise on
\* purchases, deductible input VAT = input VAT - non-deductible + imported
\* services VAT, net VAT = output VAT - deductible input VAT - withheld VAT
\* - the three payments, VAT_PAYABLE exactly when net VAT is positive; and
\* it gives the reference figures for the answers of every VAT3 filing.
C26_VATReferenceFormula ==
  /\ VATMismatches = {}
  /\ VATExamples
  /\ \A s \in Sessions :
       (session[s].filing_started /\ session[s].filing_type = "VAT3") =>
         VATFigures(section_o_calculation(session[s].collected_data))
           = ReferenceVATOf(session[s].collected_data)

\* a VAT3 filing whose answers so far hold sales at 16% and give a positive
\* net VAT
C26_Witness ==
  \E s \in Sessions :
    /\ session[s].filing_started /\ session[s].filing_type = "VAT3"
    /\ Amount(session[s].collected_data, "VAT_B", "taxable_value") > 0
    /\ section_o_calculation(session[s].collected_data).output_vat > 0
    /\ section_o_calculation(session[s].collected_data).status = "VAT_PAYABLE"

---------------------------------------------------------------------------
(* Totality of the two computations over what the answers hold.           *)

\* d[section][field] = value
SetAnswer(collected, section, field, value) ==
  Put(collected, section, Put(Get(collected, section, EmptyDict), field, value))

\* del d[section][field]
DropAnswer(collected, section, field) ==
  IF section \in DOMAIN collected
    THEN Put(collected, section,
             [f \in (DOMAIN collected[section]) \ {field} |->
                collected[section][f]])
  ELSE collected

\* texts that are not the notation of a number
NonNumericTexts ==
  { << "y", "e", "s" >>, << "N", "o" >>, << >>, << "a", "b", "c" >>, << "1", "2", "a", "b", "c" >>, << "n", "a", "n" >>, << "-", "i", "n", "f" >>,
    << "I", "n", "f", "i", "n", "i", "t", "y" >> }

\* a VAT filing with an amount in every field the sections read
AllVATFields ==
  [ section \in {"VAT_B", "VAT_C", "VAT_D", "VAT_E", "VAT_F", "VAT_G",
                 "VAT_J", "VAT_K", "VAT_L"} |->
      CASE section = "VAT_B" -> OneField("taxable_value", 1000000)
        [] section = "VAT_C" -> OneField("taxable_value", 200000)
        [] section = "VAT_D" ->
             [ field \in {"local_value", "export_value"} |->
                 IF field = "local_value" THEN Stored(30000)
                 ELSE Stored(20000) ]
        [] section = "VAT_E" -> OneField("exempt_sales_value", 250000)
        [] section = "VAT_F" -> OneField("taxable_value", 400000)
        [] section = "VAT_G" -> OneField("taxable_value", 100000)
        [] section = "VAT_J" -> OneField("vat_claimable", 5000)
        [] section = "VAT_K" ->
             [ field \in {"advance_payment_amount", "self_assessment_amount",
                          "credit_adjustment_amount"} |->
                 CASE field = "advance_payment_amount" -> Stored(1000)
                   [] field = "self_assessment_amount" -> Stored(200)
                   [] field = "credit_adjustment_amount" -> Stored(30) ]
        [] section = "VAT_L" -> OneField("vat_withheld", 4000) ]

\* the fields and texts for which the IT1 result is not the result with a
\* zero in the field
IT1NotZero ==
  { p \in IT1Fields \X NonNumericTexts :
      section_t_tax_computation(
          SetAnswer(AllIT1Fields, p[1][1], p[1][2], StrVal(p[2])))
        # section_t_tax_computation(
              SetAnswer(AllIT1Fields, p[1][1], p[1][2], Stored(0))) }

\* the same for the VAT result
VATNotZero ==
  { p \in VATFields \X NonNumericTexts :
      section_o_calculation(
          SetAnswer(AllVATFields, p[1][1], p[1][2], StrVal(p[2])))
        # section_o_calculation(
              SetAnswer(AllVATFields, p[1][1], p[1][2], Stored(0))) }

\* the fields whose absence does not give the result with a zero in the field
MissingNotZero ==
    { f \in IT1Fields :
        section_t_tax_computation(DropAnswer(AllIT1Fields, f[1], f[2]))
          # section_t_tax_computation(
                SetAnswer(AllIT1Fields, f[1], f[2], Stored(0))) }
  \cup
    { f \in VATFields :
        section_o_calculation(DropAnswer(AllVATFields, f[1], f[2]))
          # section_o_calculation(
                SetAnswer(AllVATFields, f[1], f[2], Stored(0))) }

\* the results for no answers at all
EmptyResults ==
  /\ section_t_tax_computation(EmptyDict).finite
  /\ section_t_tax_computation(EmptyDict).final_tax_due_or_refund = 0
  /\ section_t_tax_computation(EmptyDict).status = "REFUND_DUE"
  /\ section_o_calculation(EmptyDict).finite
  /\ section_o_calculation(EmptyDict).net_vat_payable_credit = 0
  /\ section_o_calculation(EmptyDict).status = "CREDIT_CARRIED_FORWARD"

\* in both computations a missing field, a yes or no, an empty text and
\* every other text that is not a number count as zero, and the results for
\* no answers are a final amount of 0 with REFUND_DUE and a net VAT of 0 with
\* CREDIT_CARRIED_FORWARD
NonNumericIsZero ==
  /\ IT1NotZero = {}
  /\ VATNotZero = {}
  /\ MissingNotZero = {}
  /\ EmptyResults

\* C27: both computations are total and take a missing field, a yes or no,
\* an empty text and every other text that is not a number as zero, on the
\* filings above and on what a session has collected with such a text given
\* for the allowances or for the sales at 16%; with no answers the results
\* are a final amount of 0 with REFUND_DUE and a net VAT of 0 with
\* CREDIT_CARRIED_FORWARD
C27_ComputationsTotal ==
  /\ NonNumericIsZero
  /\ \A s \in Sessions : \A text \in NonNumericTexts :
       /\ section_t_tax_computation(
              SetAnswer(session[s].collected_data, "F", "allowances",
                        StrVal(text)))
            = section_t_tax_computation(
                  SetAnswer(session[s].collected_data, "F", "allowances",
                            Stored(0)))
       /\ section_o_calculation(
              SetAnswer(session[s].collected_data, "VAT_B", "taxable_value",
                        StrVal(text)))
            = section_o_calculation(
                  SetAnswer(session[s].collected_data, "VAT_B",
                            "taxable_value", Stored(0)))

---------------------------------------------------------------------------
(* The guardrails on what the user types.                                  *)

\* texts of amounts: plain, with a currency, commas and decimals, negative,
\* and not a number at all
MoneyTexts ==
  { << "5", "0", "0", "0", "0", "0" >>, << "K", "E", "S", " ", "5", "0", ",", "0", "0", "0", ".", "0", "0" >>, << "5", "0", ",", "0", "0", "0" >>, << "k", "e", "s", " ", "1", ",", "2", "5", "0", ",", "0", "0", "0", ".", "0", "0", " ", "o", "n", "l", "y" >>,
    << "0" >>, << "-", "5", "0", "0" >>, << "K", "E", "S", " ", "-", "5", "0", "0" >>, << "-", "1", ",", "0", "0", "0", ".", "0", "0" >>, << "a", "b", "c" >>, << >>,
    << "1", ".", "2", ".", "3" >>, << "." >>, << "K", "E", "S" >> }

\* the digits and decimal points of a text, in their order
DigitsAndPoints(text) == SelectSeq(text, LAMBDA c : c \in Digits \cup {"."})

\* a minus sign stands before the first digit
DenotesNegative(text) ==
  \E i \in 1..Len(text) :
    /\ text[i] = "-"
    /\ \E j \in (i + 1)..Len(text) : text[j] \in Digits
    /\ \A j \in 1..(i - 1) : text[j] \notin Digits

\* the names validate_response hands to sanitize_financial_input
IsAmountField(field_name) ==
  With(Lower(FieldNameChars[field_name]), LAMBDA name :
    /\ ~Contains(name, Chars_pin)
    /\ field_name # "kra_pin"
    /\ ~\E p \in FlagPrefixes : StartsWith(name, p)
    /\ \E k \in AmountKeywords : Contains(name, k))

\* the texts sanitize_financial_input does not treat as stated: accepted with
\* the value of its digits and points, or rejected when that is no number or
\* the text denotes a negative amount
SanitizeMismatches ==
  { text \in MoneyTexts :
      With(sanitize_financial_input(text), LAMBDA found :
        IF DenotesNegative(text) \/ ~IsDecimal(DigitsAndPoints(text))
          THEN found.valid
        ELSE ~found.valid \/ found.value # NumVal(FloatOf(DigitsAndPoints(text)))) }

\* the question a session is waiting on
Pending(s) ==
  get_next_question(session[s].current_section,
                    SectionData(session[s].current_section_data),
                    session[s].section_responses)

\* C28: sanitize_financial_input gives the value of the digits and decimal
\* points of a text with currency symbols, letters or commas ("KES 50,000.00"
\* gives 50000.0) and rejects a text that denotes a negative amount or is no
\* number; a session waiting on an amount does not store a negative one
C28_SanitizeFinancialInput ==
  /\ SanitizeMismatches = {}
  /\ sanitize_financial_input(<< "K", "E", "S", " ", "5", "0", ",", "0", "0", "0", ".", "0", "0" >>).value = NumVal(50000)
  /\ \A s \in Sessions :
       (session[s].filing_started /\ Pending(s) # NoQuestion
          /\ IsAmountField(Pending(s).field))
         => \A text \in {t \in MoneyTexts : DenotesNegative(t)} :
              main(session[s], s, text).sess.collected_data
                = session[s].collected_data

\* texts of identifiers: well formed, of another length, with other letters
\* at the ends, with something else than a digit in the middle, and with
\* white space around
PinTexts ==
  { GoodPin, << "A", "0", "0", "1", "2", "3", "4", "5", "6", "7", "P" >>, BadPin, << "I", "N", "V", "A", "L", "I", "D" >>, << >>,
    << "A", "1", "2", "3", "4", "5", "6", "7", "8", "P" >>, << "A", "1", "2", "3", "4", "5", "6", "7", "8", "9", "0", "P" >>, << "a", "1", "2", "3", "4", "5", "6", "7", "8", "9", "P" >>, << "A", "1", "2", "3", "4", "5", "6", "7", "8", "9", "p" >>,
    << "B", "1", "2", "3", "4", "5", "6", "7", "8", "9", "P" >>, << "A", "1", "2", "3", "4", "5", "6", "7", "8", "9", "Q" >>, << "A", "1", "2", "3", "4", "5", "X", "7", "8", "9", "P" >>, << "A", "1", "2", "3", "4", "5", " ", "7", "8", "9", "P" >>,
    << " ", "A", "1", "2", "3", "4", "5", "6", "7", "8", "9", "P" >>, << "A", "1", "2", "3", "4", "5", "6", "7", "8", "9", "P", " " >>, GoodPin \o << "\n" >>,
    GoodPin \o << "\n", "\n" >>, << "A", "1", "2", "P" >> \o << "\n" >> }

\* the letter A, nine digits and the letter P, and nothing else
WellFormedPin(pin) ==
  /\ Len(pin) = 11
  /\ pin[1] = "A"
  /\ \A i \in 2..10 : pin[i] \in Digits
  /\ pin[11] = "P"

\* the texts validate_kra_pin accepts though ill formed, or rejects though
\* well formed
PinMismatches ==
  { pin \in PinTexts : validate_kra_pin(pin).valid # WellFormedPin(pin) }

\* C29: validate_kra_pin accepts a text if and only if it is the letter A,
\* nine digits and the letter P, 11 characters in all; a session waiting on
\* the identifier stores nothing for a text of another form
C29_KraPinFormat ==
  /\ PinMismatches = {}
  /\ \A s \in Sessions :
       (session[s].filing_started /\ Pending(s) # NoQuestion
          /\ Pending(s).field = "kra_pin")
         => \A pin \in {p \in PinTexts : ~WellFormedPin(p)} :
              main(session[s], s, pin).sess.collected_data
                = session[s].collected_data

\* texts of dates: well formed, on and beyond each bound, days no month has,
\* other shapes, and with white space around
DateTexts ==
  { GoodDate, BadDate, << "2", "0", "2", "4", "-", "0", "2", "-", "3", "0" >>, << "2", "0", "2", "4", "-", "0", "4", "-", "3", "1" >>, << "2", "0", "2", "3", "-", "0", "2", "-", "2", "9" >>,
    << "1", "9", "0", "0", "-", "0", "1", "-", "0", "1" >>, << "2", "1", "0", "0", "-", "1", "2", "-", "3", "1" >>, << "1", "8", "9", "9", "-", "1", "2", "-", "3", "1" >>, << "2", "1", "0", "1", "-", "0", "1", "-", "0", "1" >>,
    << "2", "0", "2", "4", "-", "0", "0", "-", "1", "0" >>, << "2", "0", "2", "4", "-", "1", "2", "-", "0", "1" >>, << "2", "0", "2", "4", "-", "0", "1", "-", "0", "0" >>, << "2", "0", "2", "4", "-", "0", "1", "-", "3", "2" >>,
    << "2", "0", "2", "4", "/", "0", "1", "/", "0", "1" >>, << "2", "4", "-", "0", "1", "-", "0", "1" >>, << "2", "0", "2", "4", "-", "1", "-", "0", "1" >>, << "2", "0", "2", "4", "-", "0", "1", "-", "1" >>,
    << "2", "0", "2", "4", "0", "1", "0", "1" >>, << >>, << "a", "b", "c", "d", "-", "e", "f", "-", "g", "h" >>, << "3", "1", "-", "0", "1", "-", "2", "0", "2", "4" >>, << " ", "2", "0", "2", "4", "-", "0", "1", "-", "1", "5" >>,
    << "2", "0", "2", "4", "-", "0", "1", "-", "1", "5", " " >>, << "2", "0", "2", "4", "-", "0", "1", "-", "1", "5" >> \o << "\n" >>,
    << "2", "0", "2", "4", "-", "1", "3", "-", "0", "1" >> \o << "\n" >> }

\* YYYY-MM-DD and nothing else, the year in 1900..2100, the month in 1..12
\* and the day in 1..31
WellFormedDate(text) ==
  /\ Len(text) = 10
  /\ \A i \in {1, 2, 3, 4, 6, 7, 9, 10} : text[i] \in Digits
  /\ text[5] = "-" /\ text[8] = "-"
  /\ ParseNat(SubSeq(text, 1, 4)) \in 1900..2100
  /\ ParseNat(SubSeq(text, 6, 7)) \in 1..12
  /\ ParseNat(SubSeq(text, 9, 10)) \in 1..31

\* the texts validate_date_input accepts though ill formed, or rejects
\* though well formed
DateMismatches ==
  { text \in DateTexts : validate_date_input(text).valid # WellFormedDate(text) }

\* the names validate_response hands to validate_date_input
IsDateField(field_name) ==
  With(Lower(FieldNameChars[field_name]), LAMBDA name :
    /\ ~Contains(name, Chars_pin)
    /\ field_name # "kra_pin"
    /\ ~\E p \in FlagPrefixes : StartsWith(name, p)
    /\ ~\E k \in AmountKeywords : Contains(name, k)
    /\ \E k \in DateKeywords : Contains(name, k))

\* C30: validate_date_input accepts a text if and only if it is YYYY-MM-DD
\* with the year in 1900..2100, the month in 1..12 and the day in 1..31;
\* February 30 and April 31 are accepted; a session waiting on a date stores
\* nothing for a text of another form
C30_DateFormat ==
  /\ DateMismatches = {}
  /\ validate_date_input(<< "2", "0", "2", "4", "-", "0", "2", "-", "3", "0" >>).valid
  /\ validate_date_input(<< "2", "0", "2", "4", "-", "0", "4", "-", "3", "1" >>).valid
  /\ \A s \in Sessions :
       (session[s].filing_started /\ Pending(s) # NoQuestion
          /\ IsDateField(Pending(s).field))
         => \A text \in {t \in DateTexts : ~WellFormedDate(t)} :
              main(session[s], s, text).sess.collected_data
                = session[s].collected_data
---------------------------------------------------------------------------
(* The order of the questions within a section.                            *)

\* every field of the list has an answer
AllAnswered(questions, responses) ==
  \A i \in 1..Len(questions) : questions[i].field \in DOMAIN responses

\* the field is at a place of the list before which every field has an answer
NextInList(questions, field, responses) ==
  \E i \in 1..Len(questions) :
    /\ questions[i].field = field
    /\ \A j \in 1..(i - 1) : questions[j].field \in DOMAIN responses

\* the trigger field of the entry is answered with the listed value
Unlocked(entry, responses) ==
  /\ entry.field \in DOMAIN responses
  /\ responses[entry.field] = StrVal(entry.value)

\* the field is due in the section: an unconditional field behind answered
\* ones, or, with every unconditional field answered, a sub-question of an
\* unlocked entry behind answered ones
Due(section, field, responses) ==
  LET data == SectionData(section)
  IN  \/ NextInList(data.questions, field, responses)
      \/ /\ AllAnswered(data.questions, responses)
         /\ \E e \in 1..Len(data.conditional_questions) :
              /\ Unlocked(data.conditional_questions[e], responses)
              /\ NextInList(data.conditional_questions[e].questions, field,
                            responses)

\* the fields the section can come to hold with these answers to its trigger
\* fields
Reachable(section, responses) ==
  LET data == SectionData(section)
  IN  {data.questions[i].field : i \in 1..Len(data.questions)}
        \cup UNION { {data.conditional_questions[e].questions[i].field :
                        i \in 1..Len(data.conditional_questions[e].questions)} :
                     e \in {x \in 1..Len(data.conditional_questions) :
                              Unlocked(data.conditional_questions[x], responses)} }

\* no entry of the section is unlocked
NoneUnlocked(section, responses) ==
  \A e \in 1..Len(SectionData(section).conditional_questions) :
    ~Unlocked(SectionData(section).conditional_questions[e], responses)

\* C31: a question the handler sends for the current section is due in the
\* schema's order: an unconditional field with every earlier one answered,
\* or, once every unconditional field is answered, a sub-question of a
\* trigger answered with its listed value; a section holds sub-answers of
\* such triggers only; and when an answer leaves every unconditional field
\* answered and no trigger at its listed value, no further question of the
\* section is asked
C31_QuestionsInSchemaOrder ==
  /\ [](\A s \in Sessions :
          session[s].filing_started =>
            /\ \A section \in DOMAIN session[s].collected_data :
                 DOMAIN session[s].collected_data[section]
                   \subseteq Reachable(section,
                                       session[s].collected_data[section])
            /\ CurrentQuestion(s) # NoQuestion =>
                 Due(session[s].current_section, CurrentQuestion(s).field,
                     session[s].section_responses))
  /\ [][ \A s \in Sessions :
           LET old == session[s]
               new == session'[s]
               sent == last_msgs'[s]
               answers == Get(new.collected_data, old.current_section,
                              EmptyDict)
           IN  /\ (new.filing_started /\ sent # last_msgs[s]) =>
                    \A i \in QuestionsIn(sent) :
                      Due(sent[i].section, sent[i].field,
                          new.section_responses)
               /\ (/\ old.filing_started /\ new.filing_started
                   /\ answers # Get(old.collected_data, old.current_section,
                                    EmptyDict)
                   /\ AllAnswered(SectionData(old.current_section).questions,
                                  answers)
                   /\ NoneUnlocked(old.current_section, answers)) =>
                    /\ get_next_question(old.current_section,
                                         SectionData(old.current_section),
                                         answers) = NoQuestion
                    /\ \/ new.current_section # old.current_section
                       \/ ComputationStarts(s)
                    /\ \A i \in QuestionsIn(sent) :
                         sent[i].section # old.current_section ]_vars

\* C31 witness: section F has asked the first employment sub-question after
\* has_employment_income was answered Yes
C31_Witness ==
  \E s \in Sessions :
    /\ session[s].filing_started
    /\ session[s].current_section = "F"
    /\ "has_employment_income" \in DOMAIN session[s].section_responses
    /\ session[s].section_responses["has_employment_income"] = StrVal(S_Yes)
    /\ CurrentQuestion(s).field
         \notin {SectionData("F").questions[i].field :
                   i \in 1..Len(SectionData("F").questions)}
    /\ \E i \in QuestionsIn(last_msgs[s]) :
         last_msgs[s][i].field = CurrentQuestion(s).field

---------------------------------------------------------------------------
(* The order of the sections of an IT1 filing.                             *)

IT1Order ==
  << "A_PART1", "A_PART2", "A_PART3", "A_PART6", "F", "M", "F2", "H", "K",
     "N", "O", "P", "Q", "J", "L", "R" >>

\* the sections a filing may pass over
Skippable == {"A_PART6", "M", "J", "L", "R"}

\* the place of a section in the order
IT1Rank(section) == CHOOSE i \in 1..Len(IT1Order) : IT1Order[i] = section

\* every section of the order between the two places may be passed over
OnlySkippableIn(from, to) ==
  \A i \in from..to : IT1Order[i] \in Skippable

---------------------------------------------------------------------------
(* The floor of the tax after reliefs.                                     *)

\* the tax after reliefs a result should hold for this insurance relief
AfterReliefs(result, insurance_relief) ==
  Max(result.tax_payable - 28800 - Min(insurance_relief, 60000), 0)

\* the insurance reliefs tried on top of the amounts: none, below and above
\* the ceiling, and a negative one
InsuranceTexts == { << "0" >>, << "5", "9", "9", "9", "9" >>, << "6", "0", "0", "0", "0" >>, << "6", "0", "0", "0", "1" >>, << "-", "1", "0", "0", "0", "0", "0" >> }

\* the amounts and reliefs for which the tax after reliefs is negative or is
\* not the floored difference
AfterReliefsMismatches ==
  { p \in IT1Amounts \X InsuranceTexts :
      With(section_t_tax_computation(
             SetAnswer(IT1Answers(p[1][1], p[1][2], p[1][3], p[1][4], p[1][5],
                                  p[1][6]),
                       "L", "insurance_relief", StrVal(p[2]))),
           LAMBDA result :
             \/ result.tax_after_reliefs < 0
             \/ result.tax_after_reliefs
                  # AfterReliefs(result, safe_float(StrVal(p[2])).n)) }

\* C33: the tax after reliefs is max(tax payable - 28,800 - min(insurance
\* relief, 60,000), 0) and so never negative, also when the taxable income
\* and the tax payable are negative: for the amounts above and for what a
\* session has collected
C33_TaxAfterReliefsFloored ==
  /\ AfterReliefsMismatches = {}
  /\ \A s \in Sessions :
       With(section_t_tax_computation(session[s].collected_data),
            LAMBDA result :
              /\ result.tax_after_reliefs >= 0
              /\ result.tax_after_reliefs
                   = AfterReliefs(result,
                                  Amount(session[s].collected_data, "L",
                                         "insurance_relief")))

\* C33 witness: the summary of a filing with a negative taxable income has
\* been computed, and its tax after reliefs is 0
C33_Witness ==
  \E s \in Sessions :
    /\ pc[s] = "audit" /\ audit.status = "running"
    /\ section_t_tax_computation(session[s].collected_data).taxable_income < 0
    /\ section_t_tax_computation(session[s].collected_data).tax_payable < 0
    /\ section_t_tax_computation(session[s].collected_data).tax_after_reliefs = 0

---------------------------------------------------------------------------
(* The input VAT that is not deductible.                                   *)

\* the sales and purchases of a VAT filing: at 16%, at 8%, zero rated local
\* and export, exempt, purchases at 16% and at 8%, imported services
ApportionAmounts ==
  {0, 2500} \X {0, 10000} \X {0, 100} \X {0, 300} \X {0, 2500, 10000}
    \X {0, 10000} \X {0, 2500} \X {0, 700}

ApportionAnswers(a) ==
  [ section \in {"VAT_B", "VAT_C", "VAT_D", "VAT_E", "VAT_F", "VAT_G",
                 "VAT_J"} |->
      CASE section = "VAT_B" -> OneField("taxable_value", a[1])
        [] section = "VAT_C" -> OneField("taxable_value", a[2])
        [] section = "VAT_D" ->
             [ field \in {"local_value", "export_value"} |->
                 IF field = "local_value" THEN Stored(a[3]) ELSE Stored(a[4]) ]
        [] section = "VAT_E" -> OneField("exempt_sales_value", a[5])
        [] section = "VAT_F" -> OneField("taxable_value", a[6])
        [] section = "VAT_G" -> OneField("taxable_value", a[7])
        [] section = "VAT_J" -> OneField("vat_claimable", a[8]) ]

\* the total of the sales of a filing
TotalSales(collected) ==
    Amount(collected, "VAT_B", "taxable_value")
  + Amount(collected, "VAT_C", "taxable_value")
  + Amount(collected, "VAT_D", "local_value")
  + Amount(collected, "VAT_D", "export_value")
  + Amount(collected, "VAT_E", "exempt_sales_value")

\* the result apportions the input VAT by the exempt share of the sales,
\* within 0 and the input VAT, and deducts no less than the imported services
Apportioned(collected) ==
  With(section_o_calculation(collected), LAMBDA result :
    /\ result.non_deductible_input_vat
         = IF TotalSales(collected) = 0 THEN 0
           ELSE (result.input_vat
                   * Amount(collected, "VAT_E", "exempt_sales_value"))
                  \div TotalSales(collected)
    /\ result.non_deductible_input_vat >= 0
    /\ result.non_deductible_input_vat <= result.input_vat
    /\ result.deductible_input_vat
         = result.input_vat - result.non_deductible_input_vat
             + result.imported_services_vat
    /\ result.deductible_input_vat >= result.imported_services_vat)

ApportionMismatches ==
  { a \in ApportionAmounts : ~Apportioned(ApportionAnswers(a)) }

\* the result for what a session has collected keeps the non-deductible
\* input VAT within 0 and the input VAT
WithinInputVAT(collected) ==
  With(section_o_calculation(collected), LAMBDA result :
    /\ TotalSales(collected) = 0 => result.non_deductible_input_vat = 0
    /\ result.non_deductible_input_vat >= 0
    /\ result.non_deductible_input_vat <= result.input_vat
    /\ result.deductible_input_vat >= result.imported_services_vat)

\* C34: the non-deductible input VAT is 0 when the total of the sales is 0
\* and input VAT x exempt sales / total sales otherwise; for the answers a
\* session has accepted it lies between 0 and the input VAT, and the
\* deductible input VAT is at least the imported-services VAT
C34_NonDeductibleWithinInputVAT ==
  /\ ApportionMismatches = {}
  /\ \A s \in Sessions : WithinInputVAT(session[s].collected_data)

\* C34 witness: a VAT session has accepted exempt sales and purchases at 16%,
\* and a part of the input VAT is not deductible
C34_Witness ==
  \E s \in Sessions :
    /\ session[s].filing_type = "VAT3"
    /\ Amount(session[s].collected_data, "VAT_E", "exempt_sales_value") > 0
    /\ section_o_calculation(session[s].collected_data).input_vat > 0
    /\ section_o_calculation(session[s].collected_data).non_deductible_input_vat > 0
    /\ section_o_calculation(session[s].collected_data).non_deductible_input_vat
         < section_o_calculation(session[s].collected_data).input_vat

---------------------------------------------------------------------------
(* Progress of a filing from message to message.                           *)

\* C35: between two messages a session with a filing in progress holds the
\* definition of its current section, and that section has a question
\* without an answer, so the next message is taken as the answer to it: it
\* is recorded or refused with an error, and is never dropped without a
\* reply
C35_NeverStuck ==
  \A s \in Sessions :
    (session[s].filing_started /\ Idle(s)) =>
      /\ session[s].current_section_data = session[s].current_section
      /\ CurrentQuestion(s) # NoQuestion
      /\ \A text \in AllTexts :
           detect_prompt_injection(text).safe =>
             \/ main(session[s], s, text).msgs # << >>
             \/ main(session[s], s, text).rows # << >>

---------------------------------------------------------------------------
(* What the computations read and how it was validated.                    *)

\* the fields a computation reads whose answers validate_response does not
\* hand to sanitize_financial_input
UnvalidatedFields ==
  { f \in IT1Fields \cup VATFields : ~IsAmountField(f[2]) }

\* C36: every field the IT1 or the VAT computation reads is validated as an
\* amount, so what a session holds for such a field is a number that is not
\* negative, and a session waiting on such a field stores neither a text
\* that is no number nor a negative amount
C36_ComputationInputsSanitized ==
  /\ UnvalidatedFields = {}
  /\ \A s \in Sessions :
       /\ \A f \in IT1Fields \cup VATFields :
            (/\ f[1] \in DOMAIN session[s].collected_data
             /\ f[2] \in DOMAIN session[s].collected_data[f[1]]) =>
               /\ session[s].collected_data[f[1]][f[2]].t = "num"
               /\ session[s].collected_data[f[1]][f[2]].n >= 0
       /\ (/\ session[s].filing_started /\ Idle(s)
           /\ << session[s].current_section, CurrentQuestion(s).field >>
                \in IT1Fields \cup VATFields) =>
            \A text \in {S_abc, << "-", "5", "0", "0" >>} :
              main(session[s], s, text).sess.collected_data
                = session[s].collected_data

---------------------------------------------------------------------------
(* The validator a question gets and the kind of answer its text asks for. *)

\* the questions of a section, unconditional and conditional
QuestionsOf(section) ==
  LET data == SectionData(section)
  IN  {data.questions[i] : i \in 1..Len(data.questions)}
        \cup UNION { {data.conditional_questions[e].questions[i] :
                        i \in 1..Len(data.conditional_questions[e].questions)} :
                     e \in 1..Len(data.conditional_questions) }

\* the sections of the two schemas
SchemaSections ==
  {IT1Order[i] : i \in 1..Len(IT1Order)} \cup {VATOrder[i] : i \in 1..Len(VATOrder)}

\* answers of each kind
ProbeTexts == {GoodDate, BadDate, GoodAmount, S_abc, GoodPin}

\* the questions asking for a date that do not get the date validation
DatesNotValidated ==
  { p \in UNION { {<< section, q.field >> :
                     q \in {x \in QuestionsOf(section) : x.expects = "date"}} :
                  section \in SchemaSections } :
      \E text \in ProbeTexts :
        validate_response(p[2], text).valid # validate_date_input(text).valid }

\* the questions asking for free text that refuse some text
TextsRefused ==
  { p \in UNION { {<< section, q.field >> :
                     q \in {x \in QuestionsOf(section) : x.expects = "text"}} :
                  section \in SchemaSections } :
      \E text \in ProbeTexts : ~validate_response(p[2], text).valid }

\* C37: in both schemas a question asking for a date gets the date
\* validation and a question asking for a name, a number of a registration
\* or other free text accepts any text; a session waiting on a free-text
\* question stores whatever text it is sent
C37_ValidatorMatchesQuestion ==
  /\ DatesNotValidated = {}
  /\ TextsRefused = {}
  /\ \A s \in Sessions :
       (/\ session[s].filing_started /\ Idle(s)
        /\ CurrentQuestion(s).expects = "text") =>
         \A text \in ProbeTexts :
           main(session[s], s, text).sess.collected_data
             # session[s].collected_data

---------------------------------------------------------------------------
(* What is persisted of the answers.                                       *)

\* the section that asks for the taxpayer identifier
IdentifierSection(filing_type) ==
  IF filing_type = "IT1" THEN "A_PART1" ELSE "VAT_A"

\* the identifier entered in the session, once this answer is in
EnteredPin(sess, question, text) ==
  IF sess.current_section = IdentifierSection(sess.filing_type)
       /\ question.field = "kra_pin"
    THEN text
  ELSE PyStr(Get(Get(sess.collected_data, IdentifierSection(sess.filing_type),
                     EmptyDict),
                 "kra_pin", StrVal(<< "U", "N", "K", "N", "O", "W", "N" >>)))

\* the rows the handler inserts for the text are none when the answer is
\* refused, and else the one row of the answer with its tags
PersistedOnce(s, text) ==
  With(main(session[s], s, text).rows, LAMBDA rows :
    IF Refused(CurrentQuestion(s).field, text) THEN rows = << >>
    ELSE /\ Len(rows) = 1
         /\ rows[1].session_id = s
         /\ rows[1].filing_type = session[s].filing_type
         /\ rows[1].section = session[s].current_section
         /\ rows[1].field_name = CurrentQuestion(s).field
         /\ rows[1].kra_pin = EnteredPin(session[s], CurrentQuestion(s), text))

\* C38: an accepted answer is persisted once, behind the rows persisted
\* before it, with the filing type of the session, its section and field and
\* the taxpayer identifier entered in the session, in IT1 and in VAT3
\* sessions; a refused answer is not persisted
C38_AnswersPersistedOnce ==
  /\ [](\A s \in Sessions :
          (/\ session[s].filing_started /\ Idle(s)
           /\ CurrentQuestion(s) # NoQuestion) =>
             \A text \in AllTexts :
               detect_prompt_injection(text).safe => PersistedOnce(s, text))
  /\ [][ /\ Len(db_filings') >= Len(db_filings)
         /\ SubSeq(db_filings', 1, Len(db_filings)) = db_filings
         /\ \A s \in Sessions :
              (session'[s] = session[s] /\ last_msgs'[s] = last_msgs[s]) =>
                \A i \in (Len(db_filings) + 1)..Len(db_filings') :
                  db_filings'[i].session_id # s ]_vars

\* the same for the sessions of one filing type
PersistedOnceIn(filing_type) ==
  \A s \in Sessions :
    (/\ session[s].filing_started /\ Idle(s)
     /\ session[s].filing_type = filing_type
     /\ CurrentQuestion(s) # NoQuestion) =>
       \A text \in AllTexts :
         detect_prompt_injection(text).safe => PersistedOnce(s, text)

=============================================================================
